---- MODULE Spec2Model ----
(***************************************************************************)
(* Import-reconciliation pipeline of the budgeting app: deduplication of   *)
(* imported bank rows against the stored history, the three transfer       *)
(* detection strategies of lib/csvParser.ts, and the two import handlers   *)
(* (app/import/aib/preview.tsx, app/import/revolut/preview.tsx).           *)
(*                                                                         *)
(* Conventions of the model:                                               *)
(*  - a title is a sequence of one-character strings, so that lower-casing,*)
(*    whitespace collapsing, trimming and substring search are computed;   *)
(*  - a date is an instant counted in units of 12 hours since an epoch at  *)
(*    UTC midnight; the ISO string and Date.getTime() carry the same       *)
(*    information, the UTC calendar day is the instant divided by the      *)
(*    length of a day;                                                     *)
(*  - JavaScript arrays are sequences, so indices are 1-based here where   *)
(*    the source is 0-based; a JavaScript Set is a sequence without        *)
(*    repetition in insertion order;                                       *)
(*  - undefined fields: matchedTransferId = NoId, the two analytics flags  *)
(*    FALSE.                                                               *)
(***************************************************************************)
EXTENDS Integers, Sequences, FiniteSets, TLC

VARIABLES db, queue, nextId, transactions, provider, runs, last,
          argNew, argExisting, ret, attempt, procs, history, input, output

vars == <<db, queue, nextId, transactions, provider, runs, last,
          argNew, argExisting, ret, attempt, procs, history, input, output>>

importVars == <<db, queue, nextId, transactions, provider, runs, last>>

detectVars == <<argNew, argExisting, ret>>

\* the outcome of a run some of whose calls failed
failVars == <<attempt>>

\* the imports in flight and what their interleaving did
raceVars == <<procs, history>>

\* the argument and the outcome of a call of the statement parsers
parseVars == <<input, output>>

-----------------------------------------------------------------------------
(* Bounds of the model.                                                    *)

\* longest batch of candidates loaded for one import
MaxBatch == 2

\* most records the store (remote database plus local queue) may hold
MaxRecords == 3

\* most consecutive runs of handleImport on one loaded batch
MaxRuns == 2

\* longest list of new candidates handed to a detector
MaxNew == 2

\* longest list of existing candidates handed to a detector
MaxExisting == 2

-----------------------------------------------------------------------------
(* Program constants.                                                      *)

\* 1000 * 60 * 60 * 24 milliseconds, in the model's unit of 12 hours
DayLength == 2

\* widest distance, in days, of a cross-bank pair
CrossBankDays == 4

\* widest distance, in days, of a same-batch pair
SameBatchDays == 1

Marker == <<"*", "M", "O", "B", "I">>

TransferCategory == "transfer"

NoId == 0

Kinds == {"income", "expense"}

Providers == {"aib_import", "revolut_import"}

-----------------------------------------------------------------------------
(* Generic helpers.                                                        *)

Range(s) == {s[i] : i \in 1..Len(s)}

Abs(x) == IF x < 0 THEN -x ELSE x

\* Set.prototype.add on an insertion-ordered set
SetAdd(s, x) == IF x \in Range(s) THEN s ELSE Append(s, x)

SeqsUpTo(S, n) == UNION {[1..k -> S] : k \in 0..n}

-----------------------------------------------------------------------------
(* Text.                                                                   *)

UpperCase ==
    <<"A", "B", "C", "D", "E", "F", "G", "H", "I", "J", "K", "L", "M",
      "N", "O", "P", "Q", "R", "S", "T", "U", "V", "W", "X", "Y", "Z">>

LowerCase ==
    <<"a", "b", "c", "d", "e", "f", "g", "h", "i", "j", "k", "l", "m",
      "n", "o", "p", "q", "r", "s", "t", "u", "v", "w", "x", "y", "z">>

LowerOf ==
    [c \in {UpperCase[i] : i \in 1..Len(UpperCase)} |->
        LowerCase[CHOOSE i \in 1..Len(UpperCase) : UpperCase[i] = c]]

toLowerCase(s) ==
    [i \in 1..Len(s) |-> IF s[i] \in DOMAIN LowerOf THEN LowerOf[s[i]] ELSE s[i]]

IsSpace(c) == c \in {" ", "\t", "\n", "\r"}

\* String.prototype.replace(/\s+/g, " ")
RECURSIVE collapseWhitespace(_)
collapseWhitespace(s) ==
    IF s = <<>> THEN <<>>
    ELSE IF IsSpace(Head(s))
         THEN IF Len(s) > 1 /\ IsSpace(s[2])
              THEN collapseWhitespace(Tail(s))
              ELSE <<" ">> \o collapseWhitespace(Tail(s))
         ELSE <<Head(s)>> \o collapseWhitespace(Tail(s))

RECURSIVE trimStart(_)
trimStart(s) ==
    IF s # <<>> /\ IsSpace(Head(s)) THEN trimStart(Tail(s)) ELSE s

RECURSIVE trimEnd(_)
trimEnd(s) ==
    IF s # <<>> /\ IsSpace(s[Len(s)]) THEN trimEnd(SubSeq(s, 1, Len(s) - 1)) ELSE s

trim(s) == trimEnd(trimStart(s))

normalizeText(s) == trim(collapseWhitespace(toLowerCase(s)))

\* String.prototype.includes
includes(s, sub) ==
    \E i \in 0..(Len(s) - Len(sub)) : SubSeq(s, i + 1, i + Len(sub)) = sub

-----------------------------------------------------------------------------
(* Dates.                                                                  *)

\* new Date(value).toISOString().split("T")[0]
dateOnlyKey(date) == date \div DayLength

\* 4 * |t1 - t2| / DayLength <= 4 * d, kept in integers
WithinDays(t1, t2, d) == Abs(t1 - t2) <= d * DayLength

-----------------------------------------------------------------------------
(* Canonical transactions.                                                 *)

\* the shape convertAibToAppTransaction / convertRevolutToAppTransaction
\* return: the analytics flags and the counterpart link are not set
ParsedTransaction(title, amount, kind, date, currency) ==
    [title |-> title, amount |-> amount, kind |-> kind, date |-> date,
     currency |-> currency, categoryId |-> "general",
     excludeFromAnalytics |-> FALSE, isAnalyticsProtected |-> FALSE,
     matchedTransferId |-> NoId]

-----------------------------------------------------------------------------
(* Strategy 1: same-batch pairing (detectTransferPairs).                   *)

\* a plausible slip: the groups are keyed by the instant, not by its day
GroupKeyExactTime(tx) == <<tx.date, tx.amount, tx.currency>>

GroupKey(tx) == <<dateOnlyKey(tx.date), tx.amount, tx.currency>>

\* potentialMatches: the groups in order of first occurrence, each the
\* ascending list of the indices with one key
GroupOf(txs, i) ==
    SelectSeq([k \in 1..Len(txs) |-> k],
              LAMBDA k : GroupKey(txs[k]) = GroupKey(txs[i]))

IsLeader(txs, i) == \A k \in 1..(i - 1) : GroupKey(txs[k]) # GroupKey(txs[i])

PairQualifies(tx1, tx2) ==
    /\ tx1.kind # tx2.kind
    /\ WithinDays(tx1.date, tx2.date, SameBatchDays)

\* the two nested loops over one group; every qualifying pair is pushed twice
RECURSIVE GroupLoop(_, _, _, _, _)
GroupLoop(txs, indices, i, j, acc) ==
    IF i > Len(indices) THEN acc
    ELSE IF j > Len(indices) THEN GroupLoop(txs, indices, i + 1, i + 2, acc)
    ELSE IF PairQualifies(txs[indices[i]], txs[indices[j]])
         THEN GroupLoop(txs, indices, i, j + 1,
                [indices |-> SetAdd(SetAdd(acc.indices, indices[i]), indices[j]),
                 pairs |-> acc.pairs
                            \o <<[index1 |-> indices[i], index2 |-> indices[j]],
                                 [index1 |-> indices[i], index2 |-> indices[j]]>>])
         ELSE GroupLoop(txs, indices, i, j + 1, acc)

RECURSIVE GroupsLoop(_, _, _)
GroupsLoop(txs, g, acc) ==
    IF g > Len(txs) THEN acc
    ELSE IF IsLeader(txs, g) /\ Len(GroupOf(txs, g)) >= 2
         THEN GroupsLoop(txs, g + 1, GroupLoop(txs, GroupOf(txs, g), 1, 2, acc))
         ELSE GroupsLoop(txs, g + 1, acc)

detectTransferPairs(txs) ==
    GroupsLoop(txs, 1, [indices |-> <<>>, pairs |-> <<>>])

-----------------------------------------------------------------------------
(* Strategy 2: provider-specific internal transfers (detectAibTransfers).  *)

AibCriteria(newTx, existingTx) ==
    /\ dateOnlyKey(newTx.date) = dateOnlyKey(existingTx.date)
    /\ Abs(newTx.amount) = Abs(existingTx.amount)
    /\ newTx.currency = existingTx.currency
    /\ newTx.kind # existingTx.kind

\* a plausible slip: the marker is not required of the existing candidate
RECURSIVE AibScanAnyTitle(_, _, _, _)
AibScanAnyTitle(newTx, existing, matched, e) ==
    IF e > Len(existing) THEN 0
    ELSE IF e \in matched THEN AibScanAnyTitle(newTx, existing, matched, e + 1)
    ELSE IF AibCriteria(newTx, existing[e]) THEN e
    ELSE AibScanAnyTitle(newTx, existing, matched, e + 1)

\* a plausible slip: the scan gives up at the first marked candidate that
\* does not meet the criteria
RECURSIVE AibScanFirstMarked(_, _, _, _)
AibScanFirstMarked(newTx, existing, matched, e) ==
    IF e > Len(existing) THEN 0
    ELSE IF e \in matched THEN AibScanFirstMarked(newTx, existing, matched, e + 1)
    ELSE IF ~includes(existing[e].title, Marker)
         THEN AibScanFirstMarked(newTx, existing, matched, e + 1)
    ELSE IF AibCriteria(newTx, existing[e]) THEN e
    ELSE 0

\* the inner for loop: the index it breaks at, 0 when it runs to the end
RECURSIVE AibScan(_, _, _, _)
AibScan(newTx, existing, matched, e) ==
    IF e > Len(existing) THEN 0
    ELSE IF e \in matched THEN AibScan(newTx, existing, matched, e + 1)
    ELSE IF ~includes(existing[e].title, Marker)
         THEN AibScan(newTx, existing, matched, e + 1)
    ELSE IF AibCriteria(newTx, existing[e]) THEN e
    ELSE AibScan(newTx, existing, matched, e + 1)

EmptyMatch ==
    [newIndices |-> <<>>, existingIndices |-> <<>>, matched |-> {}, pairs |-> <<>>]

\* a plausible slip: the matched existing index is not marked consumed
MatchedNotConsumed(acc, n, e) ==
    [newIndices |-> SetAdd(acc.newIndices, n),
     existingIndices |-> SetAdd(acc.existingIndices, e),
     matched |-> acc.matched,
     pairs |-> Append(acc.pairs, [newIndex |-> n, existingIndex |-> e])]

Matched(acc, n, e) ==
    [newIndices |-> SetAdd(acc.newIndices, n),
     existingIndices |-> SetAdd(acc.existingIndices, e),
     matched |-> acc.matched \cup {e},
     pairs |-> Append(acc.pairs, [newIndex |-> n, existingIndex |-> e])]

RECURSIVE AibLoop(_, _, _, _)
AibLoop(new, existing, n, acc) ==
    IF n > Len(new) THEN acc
    ELSE IF ~includes(new[n].title, Marker) THEN AibLoop(new, existing, n + 1, acc)
    ELSE LET e == AibScan(new[n], existing, acc.matched, 1)
         IN  IF e = 0 THEN AibLoop(new, existing, n + 1, acc)
             ELSE AibLoop(new, existing, n + 1, Matched(acc, n, e))

detectAibTransfers(new, existing) ==
    LET acc == AibLoop(new, existing, 1, EmptyMatch)
    IN  [newIndices |-> acc.newIndices, existingIndices |-> acc.existingIndices,
         pairs |-> acc.pairs]

-----------------------------------------------------------------------------
(* Strategy 3: cross-provider transfers (detectCrossBankTransfers).        *)

\* a plausible slip: the tolerance excludes its own boundary
CrossCriteriaStrict(newTx, existingTx) ==
    /\ Abs(newTx.date - existingTx.date) < CrossBankDays * DayLength
    /\ Abs(newTx.amount) = Abs(existingTx.amount)
    /\ newTx.currency = existingTx.currency
    /\ newTx.kind # existingTx.kind

CrossCriteria(newTx, existingTx) ==
    /\ WithinDays(newTx.date, existingTx.date, CrossBankDays)
    /\ Abs(newTx.amount) = Abs(existingTx.amount)
    /\ newTx.currency = existingTx.currency
    /\ newTx.kind # existingTx.kind

RECURSIVE CrossScan(_, _, _, _)
CrossScan(newTx, existing, matched, e) ==
    IF e > Len(existing) THEN 0
    ELSE IF e \in matched THEN CrossScan(newTx, existing, matched, e + 1)
    ELSE IF CrossCriteria(newTx, existing[e]) THEN e
    ELSE CrossScan(newTx, existing, matched, e + 1)

RECURSIVE CrossLoop(_, _, _, _)
CrossLoop(new, existing, n, acc) ==
    IF n > Len(new) THEN acc
    ELSE LET e == CrossScan(new[n], existing, acc.matched, 1)
         IN  IF e = 0 THEN CrossLoop(new, existing, n + 1, acc)
             ELSE CrossLoop(new, existing, n + 1, Matched(acc, n, e))

detectCrossBankTransfers(new, existing) ==
    LET acc == CrossLoop(new, existing, 1, EmptyMatch)
    IN  [newIndices |-> acc.newIndices, existingIndices |-> acc.existingIndices,
         pairs |-> acc.pairs]

-----------------------------------------------------------------------------
(* markTransfers.                                                          *)

\* a plausible slip: the record is protected but not excluded
AsTransferProtectedOnly(tx, matchedId) ==
    [tx EXCEPT !.categoryId = TransferCategory,
               !.isAnalyticsProtected = TRUE,
               !.matchedTransferId = matchedId]

AsTransfer(tx, matchedId) ==
    [tx EXCEPT !.categoryId = TransferCategory,
               !.excludeFromAnalytics = TRUE,
               !.isAnalyticsProtected = TRUE,
               !.matchedTransferId = matchedId]

markTransfers(txs) ==
    LET transferIndices == Range(detectTransferPairs(txs).indices)
    IN  IF transferIndices = {} THEN txs
        ELSE [i \in 1..Len(txs) |->
                IF i \in transferIndices
                THEN AsTransfer(txs[i], txs[i].matchedTransferId)
                ELSE txs[i]]

-----------------------------------------------------------------------------
(* The stored history: documents of the remote database and entries of the *)
(* local sync queue.  Both carry the id the queue assigned and the source. *)

Doc(tx, id, source) ==
    [id |-> id, source |-> source, title |-> tx.title, amount |-> tx.amount,
     kind |-> tx.kind, date |-> tx.date, currency |-> tx.currency,
     categoryId |-> tx.categoryId,
     excludeFromAnalytics |-> tx.excludeFromAnalytics,
     isAnalyticsProtected |-> tx.isAnalyticsProtected,
     matchedTransferId |-> tx.matchedTransferId]

\* the conversion of fetched documents for the detectors
existingAsTransactions(docs) ==
    [i \in 1..Len(docs) |->
        [title |-> docs[i].title, amount |-> Abs(docs[i].amount),
         kind |-> docs[i].kind, date |-> docs[i].date,
         currency |-> docs[i].currency, categoryId |-> docs[i].categoryId,
         excludeFromAnalytics |-> docs[i].excludeFromAnalytics,
         isAnalyticsProtected |-> docs[i].isAnalyticsProtected,
         matchedTransferId |-> NoId]]

\* the partial updates the handlers send
FlagsUpdate ==
    [categoryId |-> TransferCategory, excludeFromAnalytics |-> TRUE,
     isAnalyticsProtected |-> TRUE]

LinkUpdate(id) == [matchedTransferId |-> id]

UpdateCall(id, updates) == [id |-> id, updates |-> updates]

ApplyUpdate(doc, call) ==
    IF doc.id # call.id THEN doc
    ELSE [f \in DOMAIN doc |->
            IF f \in DOMAIN call.updates THEN call.updates[f] ELSE doc[f]]

RECURSIVE ApplyCalls(_, _)
ApplyCalls(doc, calls) ==
    IF calls = <<>> THEN doc
    ELSE ApplyCalls(ApplyUpdate(doc, Head(calls)), Tail(calls))

\* updateTransaction, call after call, on the remote documents
updateTransaction(docs, calls) ==
    [i \in 1..Len(docs) |-> ApplyCalls(docs[i], calls)]

\* updateQueuedTransactions on the entries of the local queue
updateQueuedTransactions(entries, calls) ==
    [i \in 1..Len(entries) |-> ApplyCalls(entries[i], calls)]

\* queueTransactionsForSync: one entry per transaction, in order, each with
\* a fresh id
queueTransactionsForSync(txs, source, firstId) ==
    [i \in 1..Len(txs) |-> Doc(txs[i], firstId + i - 1, source)]

-----------------------------------------------------------------------------
(* Deduplication keys.                                                     *)

\* a plausible slip: the title of the candidate is not normalised
makeKeyFromTransactionRawTitle(t) ==
    <<t.title, Abs(t.amount), t.kind, dateOnlyKey(t.date)>>

makeKeyFromTransaction(t) ==
    <<normalizeText(t.title), Abs(t.amount), t.kind, dateOnlyKey(t.date)>>

makeKeyFromDoc(doc) ==
    <<normalizeText(doc.title), Abs(doc.amount), doc.kind, dateOnlyKey(doc.date)>>

-----------------------------------------------------------------------------
(* Helpers of the handlers.                                                *)

\* positions of the documents of one source, ascending: entry k is the
\* original index of the k-th document of that source
\* a plausible slip: the records are not filtered by their source
IndicesOfAnySource(docs, source) == [k \in 1..Len(docs) |-> k]

IndicesOfSource(docs, source) ==
    SelectSeq([k \in 1..Len(docs) |-> k], LAMBDA k : docs[k].source = source)

Pick(s, idx) == [k \in 1..Len(idx) |-> s[idx[k]]]

\* Map.set pair after pair: the last pair of a new index decides
LastPair(pairs, n) ==
    pairs[CHOOSE k \in 1..Len(pairs) :
            /\ pairs[k].newIndex = n
            /\ \A m \in (k + 1)..Len(pairs) : pairs[m].newIndex # n]

NewToExistingId(pairs, docs) ==
    [n \in {pairs[k].newIndex : k \in 1..Len(pairs)} |->
        docs[LastPair(pairs, n).existingIndex].id]

MapGet(map, n) == IF n \in DOMAIN map THEN map[n] ELSE NoId

RECURSIVE SetAddAll(_, _)
SetAddAll(s, xs) ==
    IF xs = <<>> THEN s ELSE SetAddAll(SetAdd(s, Head(xs)), Tail(xs))

-----------------------------------------------------------------------------
(* handleImport of the AIB flow (app/import/aib/preview.tsx).              *)

\* Step 2: zero-amount rows and rows whose key is among the keys of the
\* remote documents or of the queued entries are left out
AibDedupe(txs, existing, queued) ==
    LET existingKeys == {makeKeyFromDoc(existing[i]) : i \in 1..Len(existing)}
                          \cup {makeKeyFromTransaction(
                                    [queued[i] EXCEPT !.amount = Abs(@)]) :
                                i \in 1..Len(queued)}
    IN  SelectSeq(txs, LAMBDA t : /\ t.amount # 0
                                  /\ makeKeyFromTransaction(t) \notin existingKeys)

\* a plausible slip: once a transfer was found every candidate is marked
AibFinalTransactionsAllMarked(deduped, allTransferIndicesInNew, newToExistingId) ==
    [idx \in 1..Len(deduped) |->
        IF allTransferIndicesInNew # {}
        THEN AsTransfer(deduped[idx], MapGet(newToExistingId, idx))
        ELSE [deduped[idx] EXCEPT !.matchedTransferId = MapGet(newToExistingId, idx)]]

\* Step 9: the new transactions as they are queued
AibFinalTransactions(deduped, allTransferIndicesInNew, newToExistingId) ==
    [idx \in 1..Len(deduped) |->
        IF idx \in allTransferIndicesInNew
        THEN AsTransfer(deduped[idx], MapGet(newToExistingId, idx))
        ELSE [deduped[idx] EXCEPT !.matchedTransferId = MapGet(newToExistingId, idx)]]

\* what one run of a handler did: the values of its locals and its calls
Outcome(deduped, finalTransactions, queuedTxs, updateCalls, queueUpdates, detected, internalPairs) ==
    [deduped |-> deduped, finalTransactions |-> finalTransactions,
     queuedTxs |-> queuedTxs, updateCalls |-> updateCalls,
     queueUpdates |-> queueUpdates, detected |-> detected,
     internalPairs |-> internalPairs]

DetectedPairs(strategy, pairs, stored) ==
    [k \in 1..Len(pairs) |->
        [strategy |-> strategy, newIndex |-> pairs[k].newIndex,
         existingId |-> stored[pairs[k].existingIndex].id]]

LinkCalls(allPairs, stored, queuedTxs) ==
    [k \in 1..Len(allPairs) |->
        UpdateCall(stored[allPairs[k].existingIndex].id,
                   LinkUpdate(queuedTxs[allPairs[k].newIndex].id))]

FlagCalls(indices, existing) ==
    [k \in 1..Len(indices) |-> UpdateCall(existing[indices[k]].id, FlagsUpdate)]

\* Step 10: the transactions are queued, then every pair's existing side is
\* linked to the id its new side was queued under (remote documents through
\* updateTransaction, queued entries through updateQueuedTransactions)
AibQueue(deduped, stored, dbCount, aibPairs, mappedCrossBankPairs, flagUpdates, finalTransactions, queuedTxs) ==
    Outcome(deduped, finalTransactions, queuedTxs,
            flagUpdates
              \o LinkCalls(SelectSeq(aibPairs \o mappedCrossBankPairs,
                                     LAMBDA q : q.existingIndex <= dbCount),
                           stored, queuedTxs),
            LinkCalls(SelectSeq(aibPairs \o mappedCrossBankPairs,
                                LAMBDA q : q.existingIndex > dbCount),
                      stored, queuedTxs),
            DetectedPairs("aib", aibPairs, stored)
              \o DetectedPairs("cross", mappedCrossBankPairs, stored),
            <<>>)

\* Steps 8 and 9: the matched remote documents are flagged, the new
\* transactions are marked
AibApply(deduped, stored, dbCount, firstId, aibPairs, mappedCrossBankPairs, allTransferIndicesInNew, dbTransferIndices, finalTransactions) ==
    AibQueue(deduped, stored, dbCount, aibPairs, mappedCrossBankPairs,
             FlagCalls(dbTransferIndices, stored), finalTransactions,
             queueTransactionsForSync(finalTransactions, "aib_import", firstId))

\* Step 6: the indices and pairs of both strategies are combined
AibCombine(deduped, stored, dbCount, firstId, revolutIndicesMap, aib, cross, mappedCrossBankPairs) ==
    AibApply(deduped, stored, dbCount, firstId, aib.pairs, mappedCrossBankPairs,
             Range(aib.newIndices) \cup Range(cross.newIndices),
             SelectSeq(SetAddAll(aib.existingIndices,
                                 Pick(revolutIndicesMap, cross.existingIndices)),
                       LAMBDA idx : idx <= dbCount),
             AibFinalTransactions(deduped,
                 Range(aib.newIndices) \cup Range(cross.newIndices),
                 NewToExistingId(aib.pairs \o mappedCrossBankPairs, stored)))

MapPairs(pairs, indicesMap) ==
    [k \in 1..Len(pairs) |->
        [newIndex |-> pairs[k].newIndex,
         existingIndex |-> indicesMap[pairs[k].existingIndex]]]

\* Steps 4 and 5: the marker strategy against every stored record, the
\* cross-bank strategy against the stored Revolut records
AibDetect(deduped, stored, dbCount, firstId, asTransactions, revolutIndicesMap, cross) ==
    AibCombine(deduped, stored, dbCount, firstId, revolutIndicesMap,
               detectAibTransfers(deduped, asTransactions), cross,
               MapPairs(cross.pairs, revolutIndicesMap))

AibConvert(deduped, stored, dbCount, firstId, asTransactions, revolutIndicesMap) ==
    AibDetect(deduped, stored, dbCount, firstId, asTransactions, revolutIndicesMap,
              detectCrossBankTransfers(deduped,
                                       Pick(asTransactions, revolutIndicesMap)))

\* Steps 1 to 3: the remote documents and the queued entries are fetched,
\* the candidates deduplicated, the stored records converted
AibImport(txs, existing, queued, firstId) ==
    AibConvert(AibDedupe(txs, existing, queued), existing \o queued, Len(existing),
               firstId, existingAsTransactions(existing \o queued),
               IndicesOfSource(existing \o queued, "revolut_import"))

-----------------------------------------------------------------------------
(* handleImport of the Revolut flow (app/import/revolut/preview.tsx).      *)

\* only the remote documents are fetched; the local queue is not read
RevolutDedupe(txs, existing) ==
    LET existingKeys == {makeKeyFromDoc(existing[i]) : i \in 1..Len(existing)}
    IN  SelectSeq(txs, LAMBDA t : makeKeyFromTransaction(t) \notin existingKeys)

\* crossBankResult.existingIndices.forEach((idx, pairIndex) => ...): a Set
\* hands its callback the value a second time, so pairIndex is idx, and
\* Array.from(newIndices)[pairIndex] reads the entry at the position the
\* existing index names (0 stands for undefined)
NewIndexRead(newIndices, idx) ==
    IF idx <= Len(newIndices) THEN newIndices[idx] ELSE 0

RevolutAllPairs(cross, aibIndicesMap) ==
    LET reads == [k \in 1..Len(cross.existingIndices) |->
                    [newIndex |-> NewIndexRead(cross.newIndices,
                                               cross.existingIndices[k]),
                     existingIndex |-> aibIndicesMap[cross.existingIndices[k]]]]
    IN  SelectSeq(reads, LAMBDA p : p.newIndex # 0)

RevolutDedupedWithTransfers(deduped, transferIndicesInNew, newToExistingId) ==
    [idx \in 1..Len(deduped) |->
        IF idx \in transferIndicesInNew
        THEN AsTransfer(deduped[idx], MapGet(newToExistingId, idx))
        ELSE deduped[idx]]

RevolutFinalTransactions(withTransfers, allTransferIndicesInNew, newToExistingId) ==
    [idx \in 1..Len(withTransfers) |->
        IF idx \in allTransferIndicesInNew /\ ~withTransfers[idx].isAnalyticsProtected
        THEN AsTransfer(withTransfers[idx], MapGet(newToExistingId, idx))
        ELSE [withTransfers[idx] EXCEPT
                !.matchedTransferId = MapGet(newToExistingId, idx)]]

CombinedPairs(pairs, existingCount, existing) ==
    [k \in 1..Len(pairs) |->
        [strategy |-> "sameBatch", newIndex |-> pairs[k].index2 - existingCount,
         existingId |-> existing[pairs[k].index1].id]]

\* the transactions are queued and the existing sides of allPairs linked
RevolutQueue(deduped, existing, cross, aibIndicesMap, combinedPairs, internalTransferPairs, allPairs, finalTransactions, queuedTxs) ==
    Outcome(deduped, finalTransactions, queuedTxs,
            FlagCalls(Pick(aibIndicesMap, cross.existingIndices), existing)
              \o LinkCalls(allPairs, existing, queuedTxs),
            <<>>,
            DetectedPairs("cross", MapPairs(cross.pairs, aibIndicesMap), existing)
              \o combinedPairs,
            internalTransferPairs)

\* the new transactions are marked in two passes
RevolutApply(deduped, existing, firstId, cross, aibIndicesMap, combinedPairs, internalTransferPairs, transferIndicesInNew, allPairs, newToExistingId, finalTransactions) ==
    RevolutQueue(deduped, existing, cross, aibIndicesMap, combinedPairs,
                 internalTransferPairs, allPairs, finalTransactions,
                 queueTransactionsForSync(finalTransactions, "revolut_import",
                                          firstId))

RevolutCombine(deduped, existing, firstId, cross, aibIndicesMap, combinedPairs, internalTransferPairs, transferIndicesInNew, allPairs, newToExistingId) ==
    RevolutApply(deduped, existing, firstId, cross, aibIndicesMap, combinedPairs,
                 internalTransferPairs, transferIndicesInNew, allPairs,
                 newToExistingId,
                 RevolutFinalTransactions(
                     RevolutDedupedWithTransfers(deduped, transferIndicesInNew,
                                                 newToExistingId),
                     transferIndicesInNew \cup Range(cross.newIndices),
                     newToExistingId))

RevolutPairs(deduped, existing, firstId, cross, aibIndicesMap, combinedPairs, internalTransferPairs, transferIndicesInNew, allPairs) ==
    RevolutCombine(deduped, existing, firstId, cross, aibIndicesMap, combinedPairs,
                   internalTransferPairs, transferIndicesInNew, allPairs,
                   NewToExistingId(allPairs, existing))

\* same-batch pairing on the fetched documents followed by the candidates,
\* same-batch pairing on the candidates alone, the cross-bank strategy
\* against the fetched AIB documents
RevolutDetect(deduped, existing, firstId, asTransactions, aibIndicesMap, combinedTransferDetection, cross) ==
    RevolutPairs(deduped, existing, firstId, cross, aibIndicesMap,
                 CombinedPairs(SelectSeq(combinedTransferDetection.pairs,
                                   LAMBDA q : /\ q.index1 <= Len(asTransactions)
                                              /\ q.index2 > Len(asTransactions)),
                               Len(asTransactions), existing),
                 detectTransferPairs(deduped).pairs,
                 {idx - Len(asTransactions) : idx \in
                    {i \in Range(combinedTransferDetection.indices) :
                        i > Len(asTransactions)}},
                 RevolutAllPairs(cross, aibIndicesMap))

RevolutConvert(deduped, existing, firstId, asTransactions, aibIndicesMap) ==
    RevolutDetect(deduped, existing, firstId, asTransactions, aibIndicesMap,
                  detectTransferPairs(asTransactions \o deduped),
                  detectCrossBankTransfers(deduped,
                                           Pick(asTransactions, aibIndicesMap)))

RevolutImport(txs, existing, firstId) ==
    RevolutConvert(RevolutDedupe(txs, existing), existing, firstId,
                   existingAsTransactions(existing),
                   IndicesOfSource(existing, "aib_import"))

\* the read-back after the wait: the ids of the fetched documents by
\* (date, title, amount, kind); a later document replaces an earlier one
TxMapGet(syncedTransactions, tx) ==
    LET same == {i \in 1..Len(syncedTransactions) :
                    /\ syncedTransactions[i].date = tx.date
                    /\ syncedTransactions[i].title = tx.title
                    /\ syncedTransactions[i].amount = tx.amount
                    /\ syncedTransactions[i].kind = tx.kind}
    IN  IF same = {} THEN NoId
        ELSE syncedTransactions[CHOOSE i \in same : \A j \in same : j <= i].id

PairLinkCalls(pair, finalTransactions, syncedTransactions) ==
    LET id1 == TxMapGet(syncedTransactions, finalTransactions[pair.index1])
        id2 == TxMapGet(syncedTransactions, finalTransactions[pair.index2])
    IN  IF id1 # NoId /\ id2 # NoId
        THEN <<UpdateCall(id1, LinkUpdate(id2)), UpdateCall(id2, LinkUpdate(id1))>>
        ELSE <<>>

RECURSIVE InternalLinkCalls(_, _, _)
InternalLinkCalls(pairs, finalTransactions, syncedTransactions) ==
    IF pairs = <<>> THEN <<>>
    ELSE PairLinkCalls(Head(pairs), finalTransactions, syncedTransactions)
            \o InternalLinkCalls(Tail(pairs), finalTransactions, syncedTransactions)

-----------------------------------------------------------------------------
(* The rows the statements of the model contain.                           *)

MobiTitle == <<"*", "M", "O", "B", "I", " ", " ", "X">>

\* the same title after normalisation, without the marker
VariantTitle == <<" ", "*", "m", "o", "b", "i", " ", "x">>

BaseRow == ParsedTransaction(MobiTitle, 100, "expense", 0, "EUR")

AllRows ==
    {ParsedTransaction(t, a, k, d, c) :
        t \in {MobiTitle, VariantTitle}, a \in {0, 100, 101}, k \in Kinds,
        d \in {0, 1, 2, 8, 10}, c \in {"EUR", "USD"}}

\* the number of fields, kind apart, in which a row differs from the base row
Deviations(r) ==
    Cardinality({f \in {"title", "amount", "date", "currency"} : r[f] # BaseRow[f]})

\* rows of imported statements: an expense, the same expense under a title
\* that normalises alike, and the incomes that agree with the expense or
\* differ from it in one field
ImportRows ==
    {r \in AllRows :
        /\ Deviations(r) <= 1
        /\ r.date # 8
        /\ r.kind = "expense" => r.amount = 100 /\ r.date = 0 /\ r.currency = "EUR"
        /\ r.kind = "income" => r.title = MobiTitle}

\* rows handed to the detectors as new candidates: the expense, with and
\* without the marker, and the income of the base row
NewRows ==
    {r \in AllRows :
        /\ r.amount = 100 /\ r.date = 0 /\ r.currency = "EUR"
        /\ r.kind = "income" => r.title = MobiTitle}

\* rows handed to the detectors as existing candidates: the expense and the
\* incomes that agree with it or differ from it in one field
ExistingRows ==
    {r \in AllRows :
        /\ Deviations(r) <= 1
        /\ r.amount # 0
        /\ r.kind = "expense" => r = BaseRow}

-----------------------------------------------------------------------------
(* State.                                                                  *)

NoImport ==
    [provider |-> "none", db |-> <<>>, queue |-> <<>>, deduped |-> <<>>,
     finalTransactions |-> <<>>, queuedTxs |-> <<>>, updateCalls |-> <<>>,
     queueUpdates |-> <<>>, detected |-> <<>>, internalPairs |-> <<>>]

NoCall ==
    [fn |-> "none", newIndices |-> <<>>, existingIndices |-> <<>>, pairs |-> <<>>,
     indices |-> <<>>, samePairs |-> <<>>, marked |-> <<>>]

InitImport ==
    /\ db = <<>>
    /\ queue = <<>>
    /\ nextId = 1
    /\ transactions = <<>>
    /\ provider = "none"
    /\ runs = 0
    /\ last = NoImport

\* no call has failed
NoFailure == [step |-> "none", k |-> 0]

NoAttempt ==
    [status |-> "none", lookups |-> 0, failed |-> NoFailure, planned |-> <<>>,
     candidates |-> 0, awaited |-> <<>>, queuedBatch |-> <<>>]

\* the two imports that may be in flight for one user
Procs == {1, 2}

IdleProc ==
    [pc |-> "idle", provider |-> "none", transactions |-> <<>>,
     existing |-> <<>>, queued |-> <<>>]

NoHistory == [overlapped |-> FALSE, twice |-> FALSE]

InitFail == attempt = NoAttempt

InitRace ==
    /\ procs = [p \in Procs |-> IdleProc]
    /\ history = NoHistory

NoInput == [fn |-> "none"]

NoOutput == [fn |-> "none"]

InitParse ==
    /\ input = NoInput
    /\ output = NoOutput

Init ==
    /\ InitImport
    /\ argNew = <<>>
    /\ argExisting = <<>>
    /\ ret = NoCall
    /\ InitFail
    /\ InitRace
    /\ InitParse

-----------------------------------------------------------------------------
(* Operations of the import flows.                                         *)

\* the paste screen parses a statement and caches its candidates for the
\* preview screen of that provider
Paste(p, txs) ==
    /\ txs # <<>>
    /\ Len(db) + Len(queue) + Len(txs) <= MaxRecords
    /\ provider' = p
    /\ transactions' = txs
    /\ runs' = IF p = provider /\ txs = transactions THEN runs ELSE 0
    /\ last' = IF p = provider /\ txs = transactions THEN last ELSE NoImport
    /\ UNCHANGED <<db, queue, nextId>>

Observed(p, r, calls) ==
    [provider |-> p, db |-> db, queue |-> queue, deduped |-> r.deduped,
     finalTransactions |-> r.finalTransactions, queuedTxs |-> r.queuedTxs,
     updateCalls |-> calls, queueUpdates |-> r.queueUpdates,
     detected |-> r.detected, internalPairs |-> r.internalPairs]

HandleImportAib ==
    /\ provider = "aib_import"
    /\ transactions # <<>>
    /\ runs < MaxRuns
    /\ \E r \in {AibImport(transactions, db, queue, nextId)} :
           /\ Len(db) + Len(queue) + Len(r.queuedTxs) <= MaxRecords
           /\ db' = updateTransaction(db, r.updateCalls)
           /\ queue' = updateQueuedTransactions(queue \o r.queuedTxs, r.queueUpdates)
           /\ nextId' = nextId + Len(r.queuedTxs)
           /\ last' = Observed("aib_import", r, r.updateCalls)
    /\ runs' = runs + 1
    /\ UNCHANGED <<transactions, provider>>

\* the documents read back after the wait, linked pair by pair
LinkInternalPairs(r, syncedTransactions) ==
    IF r.internalPairs = <<>> THEN <<>>
    ELSE InternalLinkCalls(r.internalPairs, r.finalTransactions, syncedTransactions)

\* the background sync may or may not have uploaded the queue while the
\* handler waits before it reads the documents back to link internal pairs
HandleImportRevolut ==
    /\ provider = "revolut_import"
    /\ transactions # <<>>
    /\ runs < MaxRuns
    /\ \E r \in {RevolutImport(transactions, db, nextId)} :
         /\ Len(db) + Len(queue) + Len(r.queuedTxs) <= MaxRecords
         /\ \E synced \in BOOLEAN :
              /\ r.internalPairs = <<>> => ~synced
              /\ \E syncedTransactions \in
                       {IF synced
                        THEN updateTransaction(db, r.updateCalls) \o queue \o r.queuedTxs
                        ELSE updateTransaction(db, r.updateCalls)} :
                   \E links \in {LinkInternalPairs(r, syncedTransactions)} :
                      /\ db' = updateTransaction(syncedTransactions, links)
                      /\ queue' = IF synced THEN <<>> ELSE queue \o r.queuedTxs
                      /\ last' = Observed("revolut_import", r, r.updateCalls \o links)
         /\ nextId' = nextId + Len(r.queuedTxs)
    /\ runs' = runs + 1
    /\ UNCHANGED <<transactions, provider>>

\* startSyncingTransactions: the queued entries become remote documents
\* under the ids they were queued with
Sync ==
    /\ queue # <<>>
    /\ db' = db \o queue
    /\ queue' = <<>>
    /\ UNCHANGED <<nextId, transactions, provider, runs, last>>

\* the repair of loadTransaction: a record that is protected but names no
\* counterpart loses both analytics flags
RemoveTransferFlags(doc) ==
    IF doc.isAnalyticsProtected /\ doc.matchedTransferId = NoId
    THEN [doc EXCEPT !.isAnalyticsProtected = FALSE,
                     !.excludeFromAnalytics = FALSE]
    ELSE doc

\* loadTransaction of the detail screen: the record is looked up among the
\* remote documents, then in the queue, and repaired where it was found
LoadTransaction(id) ==
    /\ \E r \in Range(db \o queue) : r.id = id
    /\ db' = [i \in 1..Len(db) |->
                IF db[i].id = id THEN RemoveTransferFlags(db[i]) ELSE db[i]]
    /\ queue' = [i \in 1..Len(queue) |->
                   IF queue[i].id = id /\ \A r \in Range(db) : r.id # id
                   THEN RemoveTransferFlags(queue[i]) ELSE queue[i]]
    /\ UNCHANGED <<nextId, transactions, provider, runs, last>>

Batches == SeqsUpTo(ImportRows, MaxBatch)

PasteStatement ==
    /\ \E p \in Providers, txs \in Batches : Paste(p, txs)
    /\ UNCHANGED <<detectVars, parseVars, failVars, raceVars>>

ImportAib ==
    /\ HandleImportAib
    /\ UNCHANGED <<detectVars, parseVars, failVars, raceVars>>

ImportRevolut ==
    /\ HandleImportRevolut
    /\ UNCHANGED <<detectVars, parseVars, failVars, raceVars>>

SyncQueue ==
    /\ Sync
    /\ UNCHANGED <<detectVars, parseVars, failVars, raceVars>>

OpenDetail ==
    /\ \E id \in 1..(nextId - 1) : LoadTransaction(id)
    /\ UNCHANGED <<detectVars, parseVars, failVars, raceVars>>

Next ==
    \/ PasteStatement
    \/ ImportAib
    \/ ImportRevolut
    \/ SyncQueue
    \/ OpenDetail

Spec == Init /\ [][Next]_vars

-----------------------------------------------------------------------------
(* The detectors applied to drawn inputs.                                  *)

InitDetect ==
    /\ InitImport
    /\ argNew \in SeqsUpTo(NewRows, MaxNew)
    /\ argExisting \in SeqsUpTo(ExistingRows, MaxExisting)
    /\ ret = NoCall
    /\ InitFail
    /\ InitRace
    /\ InitParse

DetectFrame == UNCHANGED <<argNew, argExisting, db, queue, nextId, transactions,
                            provider, runs, last, failVars, raceVars,
                            parseVars>>

CallDetectAibTransfers ==
    /\ LET r == detectAibTransfers(argNew, argExisting)
       IN  ret' = [NoCall EXCEPT !.fn = "detectAibTransfers",
                                 !.newIndices = r.newIndices,
                                 !.existingIndices = r.existingIndices,
                                 !.pairs = r.pairs]
    /\ DetectFrame

CallDetectCrossBankTransfers ==
    /\ LET r == detectCrossBankTransfers(argNew, argExisting)
       IN  ret' = [NoCall EXCEPT !.fn = "detectCrossBankTransfers",
                                 !.newIndices = r.newIndices,
                                 !.existingIndices = r.existingIndices,
                                 !.pairs = r.pairs]
    /\ DetectFrame

CallDetectTransferPairs ==
    /\ LET r == detectTransferPairs(argExisting \o argNew)
       IN  ret' = [NoCall EXCEPT !.fn = "detectTransferPairs",
                                 !.indices = r.indices,
                                 !.samePairs = r.pairs]
    /\ DetectFrame

CallMarkTransfers ==
    /\ ret' = [NoCall EXCEPT !.fn = "markTransfers",
                             !.marked = markTransfers(argExisting \o argNew)]
    /\ DetectFrame

NextDetect ==
    \/ CallDetectAibTransfers
    \/ CallDetectCrossBankTransfers
    \/ CallDetectTransferPairs
    \/ CallMarkTransfers

SpecDetect == InitDetect /\ [][NextDetect]_vars

-----------------------------------------------------------------------------
(* Properties of the detectors (checked under SpecDetect).                 *)

HasMarker(tx) == includes(tx.title, Marker)

SameDay(tx1, tx2) == tx1.date \div DayLength = tx2.date \div DayLength

OppositeKinds(tx1, tx2) ==
    \/ tx1.kind = "income" /\ tx2.kind = "expense"
    \/ tx1.kind = "expense" /\ tx2.kind = "income"

NoRepetition(s) == \A i, j \in 1..Len(s) : i # j => s[i] # s[j]

\* C2: in one call of detectAibTransfers or detectCrossBankTransfers no
\* existing index and no new index occurs in two returned pairs, so the
\* pairs, the new indices and the existing indices are equally many; one new
\* candidate consumes at most one existing candidate.
C2_GreedyOneToOne ==
    ret.fn \in {"detectAibTransfers", "detectCrossBankTransfers"} =>
        /\ \A i, j \in 1..Len(ret.pairs) :
              i # j => /\ ret.pairs[i].existingIndex # ret.pairs[j].existingIndex
                       /\ ret.pairs[i].newIndex # ret.pairs[j].newIndex
        /\ NoRepetition(ret.newIndices)
        /\ NoRepetition(ret.existingIndices)
        /\ Len(ret.pairs) = Len(ret.newIndices)
        /\ Len(ret.pairs) = Len(ret.existingIndices)
        /\ Range(ret.newIndices) = {ret.pairs[k].newIndex : k \in 1..Len(ret.pairs)}
        /\ Range(ret.existingIndices)
              = {ret.pairs[k].existingIndex : k \in 1..Len(ret.pairs)}
        /\ Len(argNew) = 1 => Len(ret.existingIndices) <= 1

\* one new marked candidate faced two eligible existing candidates and
\* consumed the first of them only
C2_Witness ==
    /\ ret.fn = "detectAibTransfers"
    /\ Len(argNew) = 1
    /\ Len(argExisting) = 2
    /\ HasMarker(argNew[1])
    /\ \A e \in 1..2 : /\ HasMarker(argExisting[e])
                       /\ SameDay(argNew[1], argExisting[e])
                       /\ argExisting[e].amount = argNew[1].amount
                       /\ argExisting[e].currency = argNew[1].currency
                       /\ OppositeKinds(argNew[1], argExisting[e])
    /\ ret.existingIndices = <<1>>

\* an existing candidate a new marked candidate may be paired with
AibEligible(n, e) ==
    /\ HasMarker(argExisting[e])
    /\ SameDay(argNew[n], argExisting[e])
    /\ Abs(argNew[n].amount) = Abs(argExisting[e].amount)
    /\ argNew[n].currency = argExisting[e].currency
    /\ OppositeKinds(argNew[n], argExisting[e])

ConsumedBefore(e, n) ==
    \E k \in 1..Len(ret.pairs) :
        ret.pairs[k].existingIndex = e /\ ret.pairs[k].newIndex < n

\* C7: detectAibTransfers goes through the new candidates in index order and
\* pairs each marked one with the lowest-indexed eligible existing candidate
\* no earlier new candidate consumed; without such a candidate it stays
\* unmatched; no pair has a title without the marker.
C7_FirstMatchOrder ==
    ret.fn = "detectAibTransfers" =>
        /\ \A k \in 1..Len(ret.pairs) :
              /\ HasMarker(argNew[ret.pairs[k].newIndex])
              /\ AibEligible(ret.pairs[k].newIndex, ret.pairs[k].existingIndex)
              /\ ~ConsumedBefore(ret.pairs[k].existingIndex, ret.pairs[k].newIndex)
              /\ \A e \in 1..(ret.pairs[k].existingIndex - 1) :
                    AibEligible(ret.pairs[k].newIndex, e)
                        => ConsumedBefore(e, ret.pairs[k].newIndex)
        /\ \A k \in 1..(Len(ret.pairs) - 1) :
              ret.pairs[k].newIndex < ret.pairs[k + 1].newIndex
        /\ \A n \in 1..Len(argNew) :
              (HasMarker(argNew[n]) /\ n \notin Range(ret.newIndices))
                  => \A e \in 1..Len(argExisting) :
                        AibEligible(n, e) => ConsumedBefore(e, n)

\* the second new candidate found the first eligible existing candidate
\* consumed and took the next one
C7_Witness ==
    /\ ret.fn = "detectAibTransfers"
    /\ Len(ret.pairs) = 2
    /\ AibEligible(2, 1)
    /\ ret.pairs[2] = [newIndex |-> 2, existingIndex |-> 2]

\* C8: detectCrossBankTransfers returns a pair only if the two instants are
\* at most 4 days apart, the absolute amounts and the currencies are equal
\* and the kinds are opposite; one new and one existing candidate that meet
\* the other conditions are paired when exactly 4 days apart and not paired
\* when 5 days apart.
C8_DateTolerance ==
    ret.fn = "detectCrossBankTransfers" =>
        /\ \A k \in 1..Len(ret.pairs) :
              LET n == argNew[ret.pairs[k].newIndex]
                  e == argExisting[ret.pairs[k].existingIndex]
              IN  /\ Abs(n.date - e.date) <= 4 * DayLength
                  /\ Abs(n.amount) = Abs(e.amount)
                  /\ n.currency = e.currency
                  /\ OppositeKinds(n, e)
        /\ (/\ Len(argNew) = 1
            /\ Len(argExisting) = 1
            /\ argNew[1].amount = argExisting[1].amount
            /\ argNew[1].currency = argExisting[1].currency
            /\ OppositeKinds(argNew[1], argExisting[1]))
           => /\ Abs(argNew[1].date - argExisting[1].date) = 4 * DayLength
                   => ret.pairs = <<[newIndex |-> 1, existingIndex |-> 1]>>
              /\ Abs(argNew[1].date - argExisting[1].date) = 5 * DayLength
                   => ret.pairs = <<>>

\* two candidates exactly 4 days apart were paired
C8_Witness ==
    /\ ret.fn = "detectCrossBankTransfers"
    /\ Len(argNew) = 1
    /\ Len(argExisting) = 1
    /\ Abs(argNew[1].date - argExisting[1].date) = 4 * DayLength
    /\ ret.pairs = <<[newIndex |-> 1, existingIndex |-> 1]>>

Counterparts(list, i) ==
    {j \in 1..Len(list) :
        /\ j # i
        /\ SameDay(list[i], list[j])
        /\ list[i].amount = list[j].amount
        /\ list[i].currency = list[j].currency
        /\ list[i].kind # list[j].kind}

-----------------------------------------------------------------------------
(* Properties of the import flows (checked under Spec).  last is the       *)
(* record of the latest run of handleImport on the loaded statement, runs  *)
(* the number of runs completed on it.                                     *)

IsTransfer(r) ==
    /\ r.categoryId = TransferCategory
    /\ r.excludeFromAnalytics
    /\ r.isAnalyticsProtected

CarriesFlags(updates) ==
    /\ "categoryId" \in DOMAIN updates
    /\ "excludeFromAnalytics" \in DOMAIN updates
    /\ "isAnalyticsProtected" \in DOMAIN updates
    /\ updates.categoryId = TransferCategory
    /\ updates.excludeFromAnalytics
    /\ updates.isAnalyticsProtected

Stored == db \o queue

\* C1: a second run of the import of one statement, nothing else having
\* changed but the upload of the queue, persists no new transaction.
C1_Idempotence == runs >= 2 => last.queuedTxs = <<>>

ProtectedImpliesExcluded(r) == r.isAnalyticsProtected => r.excludeFromAnalytics

\* C3: no emitted record is analytics-protected without being excluded from
\* analytics: the parsed candidates carry neither flag, and the output of
\* markTransfers, the records queued and the updates sent set the two flags
\* together.
C3_FlagsTogether ==
    /\ \A i \in 1..Len(transactions) :
          /\ ~transactions[i].isAnalyticsProtected
          /\ ~transactions[i].excludeFromAnalytics
    /\ \A r \in Range(markTransfers(transactions)) :
          r.isAnalyticsProtected = r.excludeFromAnalytics
    /\ \A r \in Range(last.finalTransactions) \cup Range(last.queuedTxs) :
          r.isAnalyticsProtected = r.excludeFromAnalytics
    /\ \A c \in Range(last.updateCalls) \cup Range(last.queueUpdates) :
          /\ "isAnalyticsProtected" \in DOMAIN c.updates
                => /\ "excludeFromAnalytics" \in DOMAIN c.updates
                   /\ c.updates.isAnalyticsProtected = c.updates.excludeFromAnalytics
          /\ "excludeFromAnalytics" \in DOMAIN c.updates
                => "isAnalyticsProtected" \in DOMAIN c.updates
    /\ \A r \in Range(Stored) : ProtectedImpliesExcluded(r)

\* an import queued a protected record and sent an update that protects a
\* stored one
C3_Witness ==
    /\ \E r \in Range(last.queuedTxs) : r.isAnalyticsProtected
    /\ \E c \in Range(last.updateCalls) :
          /\ "isAnalyticsProtected" \in DOMAIN c.updates
          /\ c.updates.isAnalyticsProtected

\* C4: for every pair a strategy of the import detected between a new
\* candidate and a stored record, the new transaction is queued as a
\* transfer, the stored record receives an update with the transfer
\* category and both flags, and carries them afterwards.
C4_BothSidesFlagged ==
    \A k \in 1..Len(last.detected) :
        /\ IsTransfer(last.queuedTxs[last.detected[k].newIndex])
        /\ \E c \in Range(last.updateCalls) \cup Range(last.queueUpdates) :
              c.id = last.detected[k].existingId /\ CarriesFlags(c.updates)
        /\ \A r \in Range(Stored) :
              r.id = last.detected[k].existingId => IsTransfer(r)

\* C5: for every pair of the marker strategy or of the cross-bank strategy
\* the new transaction is queued with the id of the stored record as its
\* matchedTransferId, and the stored record receives an update that sets its
\* matchedTransferId to the id the new transaction was queued under.
C5_CounterpartLinked ==
    \A k \in 1..Len(last.detected) :
        last.detected[k].strategy \in {"aib", "cross"} =>
            /\ last.queuedTxs[last.detected[k].newIndex].matchedTransferId
                  = last.detected[k].existingId
            /\ \E c \in Range(last.updateCalls) \cup Range(last.queueUpdates) :
                  /\ c.id = last.detected[k].existingId
                  /\ "matchedTransferId" \in DOMAIN c.updates
                  /\ c.updates.matchedTransferId
                        = last.queuedTxs[last.detected[k].newIndex].id

\* the records a flow fetches before it deduplicates: the remote documents,
\* and in the AIB flow the queued entries as well
Fetched ==
    IF last.provider = "aib_import" THEN last.db \o last.queue ELSE last.db

SameDedupKey(t, r) ==
    /\ normalizeText(t.title) = normalizeText(r.title)
    /\ Abs(t.amount) = Abs(r.amount)
    /\ t.kind = r.kind
    /\ t.date \div DayLength = r.date \div DayLength

HasDuplicate(t) == \E r \in Range(Fetched) : SameDedupKey(t, r)

\* C6 as stated: a candidate is dropped by deduplication if and only if a
\* fetched record has the same key (normalised title, absolute amount, kind,
\* UTC day).
C6_ExactKeyFilter ==
    last.provider # "none" =>
        last.deduped = SelectSeq(transactions, LAMBDA t : ~HasDuplicate(t))

\* C6, amended: a candidate is dropped if and only if a fetched record has
\* the same key or, in the AIB flow, its amount is zero; the currency does
\* not matter, and a candidate a day or a minor unit away from every fetched
\* record is kept unless the AIB flow drops it for its zero amount.
C6_KeyFilterOrZeroAmount ==
    last.provider # "none" =>
        /\ last.deduped
              = SelectSeq(transactions,
                    LAMBDA t : /\ ~HasDuplicate(t)
                               /\ ~(last.provider = "aib_import" /\ t.amount = 0))
        /\ \A i \in 1..Len(transactions) :
              (/\ transactions[i].amount # 0
               /\ \A r \in Range(Fetched) :
                     \/ Abs(Abs(transactions[i].amount) - Abs(r.amount)) = 1
                     \/ Abs(transactions[i].date \div DayLength
                              - r.date \div DayLength) = 1)
                 => transactions[i] \in Range(last.deduped)

\* a candidate was dropped for a fetched record of another currency, and a
\* candidate one minor unit or one day away from a fetched record was kept
C6_Witness ==
    /\ last.provider # "none"
    /\ \E t \in Range(transactions) :
          /\ t \notin Range(last.deduped)
          /\ \E r \in Range(Fetched) :
                SameDedupKey(t, r) /\ r.currency # t.currency
    /\ \E t \in Range(last.deduped), r \in Range(Fetched) :
          /\ t.title = r.title /\ t.kind = r.kind
          /\ \/ Abs(t.amount - r.amount) = 1 /\ t.date = r.date
             \/ t.amount = r.amount
                   /\ Abs(t.date \div DayLength - r.date \div DayLength) = 1

SameBatchPair(t1, t2) ==
    /\ t1.date \div DayLength = t2.date \div DayLength
    /\ t1.amount = t2.amount
    /\ t1.currency = t2.currency
    /\ OppositeKinds(t1, t2)

OtherProvider(p) == IF p = "aib_import" THEN "revolut_import" ELSE "aib_import"

\* the stored records a pair of the latest import names
DetectedRecords(k) ==
    {r \in Range(last.db \o last.queue) : r.id = last.detected[k].existingId}

MarkerOnlyInAib ==
    \A k \in 1..Len(last.detected) :
        last.detected[k].strategy = "aib" => last.provider = "aib_import"

CrossAgainstOtherProvider ==
    \A k \in 1..Len(last.detected) :
        last.detected[k].strategy = "cross" =>
            /\ DetectedRecords(k) # {}
            /\ \A r \in DetectedRecords(k) : r.source = OtherProvider(last.provider)

-----------------------------------------------------------------------------
(* Failures of the calls a handler awaits.  Both handlers run inside one   *)
(* try block whose catch reports the error; only the linking of internal   *)
(* pairs of the Revolut flow has a try block of its own.                   *)

\* the most stored and imported records of a run with failures
MaxAttemptRecords == 4

\* statements of the runs with failures: an expense and its counterpart
AttemptRows ==
    {r \in ImportRows : r.title = MobiTitle /\ r.amount = 100 /\ r.date = 0 /\ r.currency = "EUR"}

AttemptBatches == SeqsUpTo(AttemptRows, MaxBatch)

IsFlagCall(c) == "isAnalyticsProtected" \in DOMAIN c.updates

\* the updates awaited one after another before the transactions are queued
FlagCallsOf(r) == SelectSeq(r.updateCalls, IsFlagCall)

\* the updates started together after the transactions are queued
LinkCallsOf(r) == SelectSeq(r.updateCalls, LAMBDA c : ~IsFlagCall(c))

Failure(step, k) == [step |-> step, k |-> k]

\* the calls of one run that may fail
FailurePoints(r, links) ==
    {NoFailure, Failure("category", 1), Failure("snapshot", 1), Failure("queue", 1)}
        \cup {Failure("flag", k) : k \in 1..Len(FlagCallsOf(r))}
        \cup {Failure("link", k) : k \in 1..Len(LinkCallsOf(r))}
        \cup {Failure("internal", k) : k \in 1..Len(links)}

Without(s, k) == [i \in 1..(Len(s) - 1) |-> IF i < k THEN s[i] ELSE s[i + 1]]

\* a reading in which an error inside saveBalanceSnapshot reaches the handler
AbortsOnSnapshot(f) == f.step \in {"category", "flag", "snapshot", "queue"}

\* the error leaves the try block before the transactions are queued; a
\* failure of queueTransactionsForSync itself queues nothing
AbortsBeforeQueue(f) == f.step \in {"category", "flag", "queue"}

\* a plausible slip: the category is looked up after the flag updates
IssuedCallsLookupLate(r, f) ==
    IF f.step = "category" THEN FlagCallsOf(r)
    ELSE IF f.step = "flag" THEN SubSeq(FlagCallsOf(r), 1, f.k - 1)
    ELSE IF f.step = "queue" THEN FlagCallsOf(r)
    ELSE IF f.step = "link" THEN FlagCallsOf(r) \o Without(LinkCallsOf(r), f.k)
    ELSE r.updateCalls

\* the updateTransaction calls of the handler's own try block that take
\* effect: a failed flag update ends the loop, a failed link update rejects
\* Promise.all while the other updates, already started, go on
IssuedCalls(r, f) ==
    IF f.step = "category" THEN <<>>
    ELSE IF f.step = "flag" THEN SubSeq(FlagCallsOf(r), 1, f.k - 1)
    ELSE IF f.step = "queue" THEN FlagCallsOf(r)
    ELSE IF f.step = "link" THEN FlagCallsOf(r) \o Without(LinkCallsOf(r), f.k)
    ELSE r.updateCalls

\* the links of the internal pairs that take effect: each pair's two updates
\* share a try block, so a failure of the first skips the second
\* saveBalanceSnapshot catches what its own calls throw, so a failure inside
\* it is not seen by the handler
StatusOf(f) == IF f.step \in {"category", "flag", "queue", "link"} THEN "error" ELSE "success"

KeptLinks(links, f) ==
    SelectSeq([i \in 1..Len(links) |-> [i |-> i, call |-> links[i]]],
              LAMBDA x : /\ x.i # f.k
                         /\ ~(f.k % 2 = 1 /\ x.i = f.k + 1))

IssuedLinks(links, f) ==
    IF StatusOf(f) = "error" THEN <<>>
    ELSE IF f.step # "internal" THEN links
    ELSE [j \in 1..Len(KeptLinks(links, f)) |-> KeptLinks(links, f)[j].call]

\* a call the handler awaits: an update of a stored record, or a call
\* that is handed the batch id of the import
Awaited(fn, id, flags, batch) == [fn |-> fn, id |-> id, flags |-> flags, batch |-> batch]

AwaitedUpdates(calls) ==
    [k \in 1..Len(calls) |->
        Awaited("updateTransaction", calls[k].id, IsFlagCall(calls[k]), NoId)]

\* the calls of one run in the order the handler reaches them: the category
\* lookup, the flag updates one by one, the snapshot, the queueing, the
\* link updates, the links of the internal pairs
AwaitedCalls(r, f, links, batchId) ==
    <<Awaited("getTransferCategoryId", NoId, FALSE, NoId)>>
      \o (IF f.step = "category" THEN <<>>
          ELSE IF f.step = "flag"
          THEN AwaitedUpdates(SubSeq(FlagCallsOf(r), 1, f.k))
          ELSE AwaitedUpdates(FlagCallsOf(r))
                 \o <<Awaited("saveBalanceSnapshot", NoId, FALSE, batchId),
                      Awaited("queueTransactionsForSync", NoId, FALSE, batchId)>>
                 \o (IF f.step = "queue" THEN <<>>
                     ELSE AwaitedUpdates(LinkCallsOf(r))
                            \o (IF f.step = "link" THEN <<>>
                                ELSE AwaitedUpdates(links))))

\* ID.unique(): an id no persisted transaction carries yet, here the next
\* id of the queue
importBatchId == nextId

\* every transaction handed to queueTransactionsForSync carries the batch id
Attempted(r, f, links) ==
    [status |-> StatusOf(f), lookups |-> 1, failed |-> f,
     planned |-> r.updateCalls \o links, candidates |-> Len(r.finalTransactions),
     awaited |-> AwaitedCalls(r, f, links, importBatchId),
     queuedBatch |-> IF AbortsBeforeQueue(f) THEN <<>>
                     ELSE [k \in 1..Len(r.finalTransactions) |-> importBatchId]]

\* what the run did when call f failed
Done(r, f) ==
    [r EXCEPT !.queuedTxs = IF AbortsBeforeQueue(f) THEN <<>> ELSE @,
              !.queueUpdates = IF StatusOf(f) = "error" THEN <<>> ELSE @]

PasteForAttempt ==
    /\ \E p \in Providers, txs \in AttemptBatches :
          /\ Len(db) + Len(queue) + Len(txs) <= MaxAttemptRecords
          /\ provider' = p
          /\ transactions' = txs
    /\ runs' = 0
    /\ last' = NoImport
    /\ attempt' = NoAttempt
    /\ UNCHANGED <<db, queue, nextId, detectVars, parseVars, raceVars>>

\* handleImport of the AIB flow, one of its calls failing or none
AttemptImportAib ==
    /\ provider = "aib_import"
    /\ transactions # <<>>
    /\ runs < MaxRuns
    /\ \E r \in {AibImport(transactions, db, queue, nextId)} :
         \E f \in FailurePoints(r, <<>>) :
           \E d \in {Done(r, f)} :
              /\ Len(db) + Len(queue) + Len(r.queuedTxs) <= MaxAttemptRecords
              /\ db' = updateTransaction(db, IssuedCalls(r, f))
              /\ queue' = updateQueuedTransactions(queue \o d.queuedTxs, d.queueUpdates)
              /\ nextId' = nextId + Len(d.queuedTxs)
              /\ last' = Observed("aib_import", d, IssuedCalls(r, f))
              /\ attempt' = Attempted(r, f, <<>>)
    /\ runs' = runs + 1
    /\ UNCHANGED <<transactions, provider, detectVars, parseVars, raceVars>>

\* handleImport of the Revolut flow, one of its calls failing or none; the
\* wait for the sync is reached only if no call of the outer block failed
AttemptImportRevolut ==
    /\ provider = "revolut_import"
    /\ transactions # <<>>
    /\ runs < MaxRuns
    /\ \E r \in {RevolutImport(transactions, db, nextId)} :
         /\ Len(db) + Len(queue) + Len(r.queuedTxs) <= MaxAttemptRecords
         /\ \E synced \in BOOLEAN :
              /\ r.internalPairs = <<>> => ~synced
              /\ \E syncedTransactions \in
                       {IF synced
                        THEN updateTransaction(db, r.updateCalls) \o queue \o r.queuedTxs
                        ELSE updateTransaction(db, r.updateCalls)} :
                   \E links \in {LinkInternalPairs(r, syncedTransactions)} :
                     \E f \in FailurePoints(r, links) :
                       \E d \in {Done(r, f)} :
                          /\ StatusOf(f) = "error" => ~synced
                          /\ db' = updateTransaction(
                                      IF synced
                                      THEN updateTransaction(db, IssuedCalls(r, f))
                                              \o queue \o d.queuedTxs
                                      ELSE updateTransaction(db, IssuedCalls(r, f)),
                                      IssuedLinks(links, f))
                          /\ queue' = IF synced THEN <<>> ELSE queue \o d.queuedTxs
                          /\ nextId' = nextId + Len(d.queuedTxs)
                          /\ last' = Observed("revolut_import", d,
                                              IssuedCalls(r, f) \o IssuedLinks(links, f))
                          /\ attempt' = Attempted(r, f, links)
    /\ runs' = runs + 1
    /\ UNCHANGED <<transactions, provider, detectVars, parseVars, raceVars>>

SyncAfterAttempt ==
    /\ Sync
    /\ UNCHANGED <<attempt, detectVars, parseVars, raceVars>>

NextFail ==
    \/ PasteForAttempt
    \/ AttemptImportAib
    \/ AttemptImportRevolut
    \/ SyncAfterAttempt

SpecFail == Init /\ [][NextFail]_vars

-----------------------------------------------------------------------------
(* Properties of the runs with failures (checked under SpecFail).          *)

C12_BestEffortLinking ==
    attempt.failed.step \in {"flag", "link", "internal"} =>
        /\ attempt.status = "success"
        /\ Len(last.queuedTxs) = attempt.candidates
        /\ Len(last.updateCalls) >= Len(attempt.planned) - 2

-----------------------------------------------------------------------------
(* Two imports of one user.  A handler fetches the stored records, awaits, *)
(* and persists later; nothing keeps a second run from fetching in         *)
(* between.                                                                *)

\* statements of the interleaved imports
RaceRows ==
    {r \in ImportRows : r.amount = 100 /\ r.date = 0 /\ r.currency = "EUR"}

\* each of them has one row
RaceBatches == {<<r>> : r \in RaceRows}

InFlight == {p \in Procs : procs[p].pc = "fetched"}

\* a record with the key of a transaction queued now is already stored
PersistsAgain(queuedTxs) ==
    \E i \in 1..Len(queuedTxs), j \in 1..Len(db \o queue) :
        makeKeyFromTransaction(queuedTxs[i]) = makeKeyFromDoc((db \o queue)[j])

\* handleImport up to its first await after the fetch: the remote documents
\* and, in the AIB flow, the queued entries are read
StartImport(p) ==
    /\ procs[p].pc = "idle"
    /\ \E source \in Providers, txs \in RaceBatches :
          /\ Len(db) + Len(queue) + Len(txs) <= MaxRecords
          /\ procs' = [procs EXCEPT ![p] =
                          [pc |-> "fetched", provider |-> source, transactions |-> txs,
                           existing |-> db,
                           queued |-> IF source = "aib_import" THEN queue ELSE <<>>]]
    /\ history' = [history EXCEPT !.overlapped = @ \/ InFlight # {}]
    /\ UNCHANGED <<importVars, detectVars, parseVars, failVars>>

\* the rest of handleImport of the AIB flow, on the records it fetched
FinishImportAib(p) ==
    /\ procs[p].pc = "fetched"
    /\ procs[p].provider = "aib_import"
    /\ \E r \in {AibImport(procs[p].transactions, procs[p].existing,
                           procs[p].queued, nextId)} :
          /\ Len(db) + Len(queue) + Len(r.queuedTxs) <= MaxRecords
          /\ db' = updateTransaction(db, r.updateCalls)
          /\ queue' = updateQueuedTransactions(queue \o r.queuedTxs, r.queueUpdates)
          /\ nextId' = nextId + Len(r.queuedTxs)
          /\ history' = [history EXCEPT !.twice = @ \/ PersistsAgain(r.queuedTxs)]
    /\ procs' = [procs EXCEPT ![p] = IdleProc]
    /\ UNCHANGED <<transactions, provider, runs, last, detectVars, parseVars, failVars>>

\* the rest of handleImport of the Revolut flow, on the documents it fetched
FinishImportRevolut(p) ==
    /\ procs[p].pc = "fetched"
    /\ procs[p].provider = "revolut_import"
    /\ \E r \in {RevolutImport(procs[p].transactions, procs[p].existing, nextId)} :
         /\ Len(db) + Len(queue) + Len(r.queuedTxs) <= MaxRecords
         /\ \E synced \in BOOLEAN :
              /\ r.internalPairs = <<>> => ~synced
              /\ \E syncedTransactions \in
                       {IF synced
                        THEN updateTransaction(db, r.updateCalls) \o queue \o r.queuedTxs
                        ELSE updateTransaction(db, r.updateCalls)} :
                   /\ db' = updateTransaction(syncedTransactions,
                                              LinkInternalPairs(r, syncedTransactions))
                   /\ queue' = IF synced THEN <<>> ELSE queue \o r.queuedTxs
         /\ nextId' = nextId + Len(r.queuedTxs)
         /\ history' = [history EXCEPT !.twice = @ \/ PersistsAgain(r.queuedTxs)]
    /\ procs' = [procs EXCEPT ![p] = IdleProc]
    /\ UNCHANGED <<transactions, provider, runs, last, detectVars, parseVars, failVars>>

StartAnImport == \E p \in Procs : StartImport(p)

FinishAnAibImport == \E p \in Procs : FinishImportAib(p)

FinishARevolutImport == \E p \in Procs : FinishImportRevolut(p)

SyncBetweenImports ==
    /\ Sync
    /\ UNCHANGED <<detectVars, parseVars, failVars, raceVars>>

NextRace ==
    \/ StartAnImport
    \/ FinishAnAibImport
    \/ FinishARevolutImport
    \/ SyncBetweenImports

SpecRace == Init /\ [][NextRace]_vars

\* C13: when the imports run one at a time, each fetching after the
\* previous one has persisted, no import persists a transaction whose key
\* a stored record already has.
C13_SerialImportsPersistOnce == ~history.overlapped => ~history.twice

\* two imports fetched before either persisted, and a transaction was
\* persisted twice
C13_RaceReached == history.overlapped /\ history.twice

-----------------------------------------------------------------------------
(* The line tokenizer (parseCSVLine).                                      *)

Quote == "\""

Comma == ","

\* a tokenizer that toggles on every quote and knows no doubled quote
EscapedQuoteNever(line, i, insideQuotes) == FALSE

\* insideQuotes && nextChar === '"'
EscapedQuote(line, i, insideQuotes) ==
    insideQuotes /\ i < Len(line) /\ line[i + 1] = Quote

\* one pass of the loop body over the character at position i, counted
\* from 1
TokenizerStep(line, st) ==
    IF line[st.i] = Quote
    THEN IF EscapedQuote(line, st.i, st.insideQuotes)
         THEN [st EXCEPT !.current = Append(@, Quote), !.i = @ + 2]
         ELSE [st EXCEPT !.insideQuotes = ~@, !.i = @ + 1]
    ELSE IF line[st.i] = Comma /\ ~st.insideQuotes
         THEN [st EXCEPT !.result = Append(@, st.current), !.current = <<>>,
                         !.i = @ + 1]
    ELSE [st EXCEPT !.current = Append(@, line[st.i]), !.i = @ + 1]

\* for (let i = 0; i < line.length; i++), then result.push(current)
RECURSIVE parseCSVLineFrom(_, _)
parseCSVLineFrom(line, st) ==
    IF st.i > Len(line) THEN Append(st.result, st.current)
    ELSE parseCSVLineFrom(line, TokenizerStep(line, st))

parseCSVLine(line) ==
    parseCSVLineFrom(line, [i |-> 1, current |-> <<>>, insideQuotes |-> FALSE,
                            result |-> <<>>])

\* Array.prototype.join
RECURSIVE join(_, _)
join(parts, sep) ==
    IF parts = <<>> THEN <<>>
    ELSE IF Len(parts) = 1 THEN parts[1]
    ELSE parts[1] \o sep \o join(Tail(parts), sep)

\* every quote of the field doubled
RECURSIVE DoubleQuotes(_)
DoubleQuotes(field) ==
    IF field = <<>> THEN <<>>
    ELSE (IF Head(field) = Quote THEN <<Quote, Quote>> ELSE <<Head(field)>>)
         \o DoubleQuotes(Tail(field))

\* the fields written as one line: each enclosed in quotes, joined by commas
WriteLine(fields) ==
    join([k \in 1..Len(fields) |-> <<Quote>> \o DoubleQuotes(fields[k]) \o <<Quote>>],
         <<Comma>>)

-----------------------------------------------------------------------------
(* Text and numbers of the statement parsers.                             *)

NewLine == "\n"

CarriageReturn == "\r"

\* String.prototype.split on one separator character: the pieces between
\* the consecutive separators
split(s, sep) ==
    LET cuts   == {k \in 1..Len(s) : s[k] = sep}
        n      == Cardinality(cuts)
        cut(j) == IF j = 0 THEN 0
                  ELSE IF j = n + 1 THEN Len(s) + 1
                  ELSE CHOOSE k \in cuts : Cardinality({c \in cuts : c < k}) = j - 1
    IN  [j \in 1..(n + 1) |-> SubSeq(s, cut(j - 1) + 1, cut(j) - 1)]

\* String.prototype.replace(/\r$/, '')
stripCarriageReturn(l) ==
    IF l # <<>> /\ l[Len(l)] = CarriageReturn THEN SubSeq(l, 1, Len(l) - 1) ELSE l

\* String.prototype.replace(/,/g, '')
removeCommas(s) == SelectSeq(s, LAMBDA c : c # Comma)

\* String.prototype.replace(' ', 'T'): the first space only
RECURSIVE replaceFirstSpace(_)
replaceFirstSpace(s) ==
    IF s = <<>> THEN <<>>
    ELSE IF Head(s) = " " THEN <<"T">> \o Tail(s)
    ELSE <<Head(s)>> \o replaceFirstSpace(Tail(s))

startsWith(s, prefix) ==
    Len(s) >= Len(prefix) /\ SubSeq(s, 1, Len(prefix)) = prefix

Digits == <<"0", "1", "2", "3", "4", "5", "6", "7", "8", "9">>

IsDigit(c) == \E d \in 1..Len(Digits) : Digits[d] = c

DigitValue(c) == (CHOOSE d \in 1..Len(Digits) : Digits[d] = c) - 1

\* the longest prefix of digits
RECURSIVE digitPrefix(_)
digitPrefix(s) ==
    IF s # <<>> /\ IsDigit(Head(s)) THEN <<Head(s)>> \o digitPrefix(Tail(s)) ELSE <<>>

\* the number a string of digits denotes
RECURSIVE digitsValue(_)
digitsValue(ds) ==
    IF ds = <<>> THEN 0
    ELSE 10 * digitsValue(SubSeq(ds, 1, Len(ds) - 1)) + DigitValue(ds[Len(ds)])

RECURSIVE Pow10(_)
Pow10(k) == IF k = 0 THEN 1 ELSE 10 * Pow10(k - 1)

\* A number of the program: NaN, an infinity, or the decimal
\* num / 10^scale. The amounts of the model have at most two decimals, for
\* which the binary product with 100 rounds to the exact integer.
NaN == [kind |-> "NaN", num |-> 0, scale |-> 0]

Infinite(sign) == [kind |-> "infinite", num |-> sign, scale |-> 0]

Finite(num, scale) == [kind |-> "finite", num |-> num, scale |-> scale]

Zero == Finite(0, 0)

InfinityText == <<"I", "n", "f", "i", "n", "i", "t", "y">>

\* the unsigned part of a decimal literal: digits, then a point and digits
UnsignedFloat(s, sign) ==
    LET whole    == digitPrefix(s)
        rest     == SubSeq(s, Len(whole) + 1, Len(s))
        fraction == IF rest # <<>> /\ Head(rest) = "."
                    THEN digitPrefix(Tail(rest)) ELSE <<>>
    IN  IF startsWith(s, InfinityText) THEN Infinite(sign)
        ELSE IF whole = <<>> /\ fraction = <<>> THEN NaN
        ELSE Finite(sign * digitsValue(whole \o fraction), Len(fraction))

\* parseFloat: leading white space, a sign, the longest numeric prefix
\* (the inputs of the model hold no exponent)
parseFloat(text) ==
    LET s == trimStart(text)
    IN  IF s # <<>> /\ Head(s) = "-" THEN UnsignedFloat(Tail(s), -1)
        ELSE IF s # <<>> /\ Head(s) = "+" THEN UnsignedFloat(Tail(s), 1)
        ELSE UnsignedFloat(s, 1)

IsNaN(x) == x.kind = "NaN"

\* x < 0
IsNegative(x) == x.kind # "NaN" /\ x.num < 0

\* x === 0
IsZero(x) == x.kind = "finite" /\ x.num = 0

\* Math.abs
MathAbs(x) == [x EXCEPT !.num = Abs(x.num)]

\* -x
Negate(x) == [x EXCEPT !.num = -x.num]

\* x * 100
Times100(x) ==
    IF x.kind # "finite" THEN x
    ELSE IF x.scale >= 2 THEN Finite(x.num, x.scale - 2)
    ELSE Finite(x.num * Pow10(2 - x.scale), 0)

\* Math.round: the nearest integer, halves towards positive infinity
MathRound(x) ==
    IF x.kind # "finite" THEN x
    ELSE Finite((2 * x.num + Pow10(x.scale)) \div (2 * Pow10(x.scale)), 0)

\* a number without a fractional part: NaN and the infinities are none
IsInteger(x) == x.kind = "finite" /\ x.num % Pow10(x.scale) = 0

-----------------------------------------------------------------------------
(* The statement parsers (parseRevolutCSV, parseAibCSV).                   *)

\* getColumnIndex returns -1 for a column the header does not name; the
\* columns of the model are counted from 1
NoColumn == 0

\* the character U+FEFF
ByteOrderMark == "\\uFEFF"

\* String.prototype.replace(/^\uFEFF/, '')
stripByteOrderMark(l) ==
    IF l # <<>> /\ Head(l) = ByteOrderMark THEN Tail(l) ELSE l

\* csvContent.split('\n').map(l => l.replace(/\r$/, ''))
LinesOf(csvContent) ==
    LET rawLines == split(csvContent, NewLine)
    IN  [k \in 1..Len(rawLines) |-> stripCarriageReturn(rawLines[k])]

\* header.trim().toLowerCase()
normalizeHeaders(headerFields) ==
    [k \in 1..Len(headerFields) |-> toLowerCase(trim(headerFields[k]))]

\* fields[idx]?.trim() || ''
FieldAt(fields, idx) ==
    IF idx \in 1..Len(fields) THEN trim(fields[idx]) ELSE <<>>

\* fields[idx], undefined and the empty string alike
RawFieldAt(fields, idx) ==
    IF idx \in 1..Len(fields) THEN fields[idx] ELSE <<>>

OrDefault(value, default) == IF value = <<>> THEN default ELSE value

NoRows == [transactions |-> <<>>, skipped |-> 0, skippedDetails |-> <<>>]

\* a skip that is listed but not counted
SkipUncounted(acc, line, reason) ==
    [acc EXCEPT !.skippedDetails = Append(@, [line |-> line, reason |-> reason])]

\* skipped++; skippedDetails.push({ line: i + 1, reason })
Skip(acc, line, reason) ==
    [acc EXCEPT !.skipped = @ + 1,
                !.skippedDetails = Append(@, [line |-> line, reason |-> reason])]

\* transactions.push(record)
Push(acc, record) == [acc EXCEPT !.transactions = Append(@, record)]

Thrown(message) ==
    [thrown |-> TRUE, error |-> message, transactions |-> <<>>, skipped |-> 0,
     totalRows |-> 0, skippedDetails |-> <<>>]

\* return { transactions, skipped, totalRows, skippedDetails }
Returned(acc, totalRows) ==
    [thrown |-> FALSE, error |-> "", transactions |-> acc.transactions,
     skipped |-> acc.skipped, totalRows |-> totalRows,
     skippedDetails |-> acc.skippedDetails]

Max(a, b) == IF a >= b THEN a ELSE b

\* columnMap.get(name): the last header of that name
MapColumn(headers, name) ==
    LET hits == {k \in 1..Len(headers) : headers[k] = name}
    IN  IF hits = {} THEN NoColumn ELSE CHOOSE k \in hits : \A h \in hits : h <= k

\* getColumnIndex of parseRevolutCSV: the first name the map holds
RECURSIVE RevolutColumnIndex(_, _)
RevolutColumnIndex(headers, columnNames) ==
    IF columnNames = <<>> THEN NoColumn
    ELSE IF MapColumn(headers, toLowerCase(Head(columnNames))) # NoColumn
         THEN MapColumn(headers, toLowerCase(Head(columnNames)))
         ELSE RevolutColumnIndex(headers, Tail(columnNames))

RevolutColumns(headers) ==
    [type |-> RevolutColumnIndex(headers, <<<<"t", "y", "p", "e">>>>),
     product |-> RevolutColumnIndex(headers, <<<<"p", "r", "o", "d", "u", "c", "t">>>>),
     startedDate |-> RevolutColumnIndex(headers,
        <<<<"s", "t", "a", "r", "t", "e", "d", " ", "d", "a", "t", "e">>,
          <<"s", "t", "a", "r", "t", "e", "d">>,
          <<"d", "a", "t", "e">>>>),
     completedDate |-> RevolutColumnIndex(headers,
        <<<<"c", "o", "m", "p", "l", "e", "t", "e", "d", " ", "d", "a", "t", "e">>,
          <<"c", "o", "m", "p", "l", "e", "t", "e", "d">>>>),
     description |-> RevolutColumnIndex(headers,
        <<<<"d", "e", "s", "c", "r", "i", "p", "t", "i", "o", "n">>,
          <<"d", "e", "s", "c">>>>),
     amount |-> RevolutColumnIndex(headers, <<<<"a", "m", "o", "u", "n", "t">>>>),
     fee |-> RevolutColumnIndex(headers, <<<<"f", "e", "e">>>>),
     currency |-> RevolutColumnIndex(headers, <<<<"c", "u", "r", "r", "e", "n", "c", "y">>>>),
     state |-> RevolutColumnIndex(headers,
        <<<<"s", "t", "a", "t", "e">>,
          <<"s", "t", "a", "t", "u", "s">>>>),
     balance |-> RevolutColumnIndex(headers, <<<<"b", "a", "l", "a", "n", "c", "e">>>>)]

\* one row of parseRevolutCSV; no statement of its try block can throw, so
\* the 'Parse error' skip of its catch block is never taken
RevolutRow(acc, rawLine, lineNumber, cols) ==
    LET line   == trim(rawLine)
        fields == parseCSVLine(line)
        amount == parseFloat(OrDefault(FieldAt(fields, cols.amount), <<"0">>))
    IN  IF line = <<>> THEN Skip(acc, lineNumber, "Empty line")
        ELSE IF Len(fields) < 3 THEN Skip(acc, lineNumber, "Not enough columns")
        ELSE IF IsNaN(amount) THEN Skip(acc, lineNumber, "Invalid amount")
        ELSE Push(acc,
               [type |-> FieldAt(fields, cols.type),
                product |-> FieldAt(fields, cols.product),
                startedDate |-> FieldAt(fields, cols.startedDate),
                completedDate |-> FieldAt(fields, cols.completedDate),
                description |-> FieldAt(fields, cols.description),
                payer |-> <<>>,
                payee |-> <<>>,
                amount |-> amount,
                fee |-> IF cols.fee # NoColumn
                        THEN parseFloat(OrDefault(FieldAt(fields, cols.fee), <<"0">>))
                        ELSE Zero,
                currency |-> OrDefault(FieldAt(fields, cols.currency), <<"G", "B", "P">>),
                state |-> FieldAt(fields, cols.state),
                balance |-> FieldAt(fields, cols.balance)])

\* for (let i = 1; i < lines.length; i++), the lines counted from 1
RECURSIVE RevolutRows(_, _, _, _)
RevolutRows(lines, k, cols, acc) ==
    IF k > Len(lines) THEN acc
    ELSE RevolutRows(lines, k + 1, cols, RevolutRow(acc, lines[k], k, cols))

parseRevolutCSV(csvContent) ==
    LET lines == LinesOf(csvContent)
        cols  == RevolutColumns(normalizeHeaders(parseCSVLine(lines[1])))
    IN  IF Len(lines) < 2 THEN Thrown("CSV file is empty or invalid")
        ELSE IF cols.amount = NoColumn THEN Thrown("CSV must contain 'Amount' column")
        ELSE Returned(RevolutRows(lines, 2, cols, NoRows), Max(0, Len(lines) - 1))

\* the first index of a set of columns, or none
FirstOf(hits) ==
    IF hits = {} THEN NoColumn ELSE CHOOSE k \in hits : \A h \in hits : k <= h

\* normalizedHeaders.findIndex(h => h === alias)
FindExact(headers, alias) ==
    FirstOf({k \in 1..Len(headers) : headers[k] = alias})

\* normalizedHeaders.findIndex(h => h.includes(alias))
FindContaining(headers, alias) ==
    FirstOf({k \in 1..Len(headers) : includes(headers[k], alias)})

\* getColumnIndex of parseAibCSV: per alias the exact match, then the
\* first header containing the alias
RECURSIVE AibColumnIndex(_, _)
AibColumnIndex(headers, aliases) ==
    IF aliases = <<>> THEN NoColumn
    ELSE LET alias       == toLowerCase(Head(aliases))
             exactIdx    == FindExact(headers, alias)
             containsIdx == FindContaining(headers, alias)
         IN  IF exactIdx # NoColumn THEN exactIdx
             ELSE IF containsIdx # NoColumn THEN containsIdx
             ELSE AibColumnIndex(headers, Tail(aliases))

DateAliases ==
    <<<<"d", "a", "t", "e">>,
      <<"t", "r", "a", "n", "s", "a", "c", "t", "i", "o", "n", " ", "d", "a", "t", "e">>,
      <<"v", "a", "l", "u", "e", " ", "d", "a", "t", "e">>,
      <<"p", "o", "s", "t", "i", "n", "g", " ", "d", "a", "t", "e">>,
      <<"p", "o", "s", "t", "e", "d", " ", "d", "a", "t", "e">>,
      <<"p", "o", "s", "t", "e", "d", " ", "t", "r", "a", "n", "s", "a", "c", "t", "i", "o", "n", "s", " ", "d", "a", "t", "e">>>>

DescriptionAliases ==
    <<<<"d", "e", "s", "c", "r", "i", "p", "t", "i", "o", "n">>,
      <<"d", "e", "t", "a", "i", "l", "s">>,
      <<"n", "a", "r", "r", "a", "t", "i", "v", "e">>,
      <<"i", "n", "f", "o">>,
      <<"r", "e", "f", "e", "r", "e", "n", "c", "e">>>>

AmountAliases ==
    <<<<"a", "m", "o", "u", "n", "t">>,
      <<"t", "r", "a", "n", "s", "a", "c", "t", "i", "o", "n", " ", "a", "m", "o", "u", "n", "t">>>>

DebitAliases ==
    <<<<"d", "e", "b", "i", "t">>,
      <<"w", "i", "t", "h", "d", "r", "a", "w", "a", "l">>,
      <<"d", "e", "b", "i", "t", " ", "a", "m", "o", "u", "n", "t">>,
      <<"d", "e", "b", "i", "t", " ", "e", "u", "r">>>>

CreditAliases ==
    <<<<"c", "r", "e", "d", "i", "t">>,
      <<"l", "o", "d", "g", "e", "m", "e", "n", "t">>,
      <<"c", "r", "e", "d", "i", "t", " ", "a", "m", "o", "u", "n", "t">>,
      <<"c", "r", "e", "d", "i", "t", " ", "e", "u", "r">>>>

CurrencyAliases ==
    <<<<"c", "u", "r", "r", "e", "n", "c", "y">>,
      <<"c", "c", "y">>>>

BalanceAliases ==
    <<<<"b", "a", "l", "a", "n", "c", "e">>,
      <<"r", "u", "n", "n", "i", "n", "g", " ", "b", "a", "l", "a", "n", "c", "e">>,
      <<"b", "a", "l", "a", "n", "c", "e", " ", "e", "u", "r">>>>

ProductAliases ==
    <<<<"a", "c", "c", "o", "u", "n", "t">>,
      <<"a", "c", "c", "o", "u", "n", "t", " ", "n", "a", "m", "e">>,
      <<"a", "c", "c", "o", "u", "n", "t", " ", "t", "y", "p", "e">>,
      <<"a", "c", "c", "o", "u", "n", "t", " ", "p", "r", "o", "d", "u", "c", "t">>>>

AibColumns(headers) ==
    [date |-> AibColumnIndex(headers, DateAliases),
     description |-> AibColumnIndex(headers, DescriptionAliases),
     amount |-> AibColumnIndex(headers, AmountAliases),
     debit |-> AibColumnIndex(headers, DebitAliases),
     credit |-> AibColumnIndex(headers, CreditAliases),
     currency |-> AibColumnIndex(headers, CurrencyAliases),
     balance |-> AibColumnIndex(headers, BalanceAliases),
     product |-> AibColumnIndex(headers, ProductAliases)]

\* a reading of the comma as the decimal point
AibNumberDecimalComma(field) ==
    parseFloat([k \in 1..Len(trim(field)) |->
                  IF trim(field)[k] = Comma THEN "." ELSE trim(field)[k]])

\* parseFloat(field.trim().replace(/,/g, ''))
AibNumber(field) == parseFloat(removeCommas(trim(field)))

\* a reading with the credit column ahead of the debit column
AibAmountCreditFirst(fields, cols) ==
    LET debitText   == RawFieldAt(fields, cols.debit)
        creditText  == RawFieldAt(fields, cols.credit)
        amountText  == RawFieldAt(fields, cols.amount)
        debit       == AibNumber(debitText)
        credit      == AibNumber(creditText)
        afterCredit == IF /\ trim(creditText) # <<>>
                          /\ ~IsNaN(credit)
                          /\ ~IsZero(credit)
                       THEN MathAbs(credit) ELSE Zero
        afterDebit  == IF /\ IsZero(afterCredit)
                          /\ trim(debitText) # <<>>
                          /\ ~IsNaN(debit)
                          /\ ~IsZero(debit)
                       THEN Negate(MathAbs(debit)) ELSE afterCredit
    IN  IF IsZero(afterDebit) /\ amountText # <<>>
        THEN AibNumber(amountText) ELSE afterDebit

\* the amount of a row: the debit column, then the credit column, then the
\* amount column
AibAmount(fields, cols) ==
    LET debitText   == RawFieldAt(fields, cols.debit)
        creditText  == RawFieldAt(fields, cols.credit)
        amountText  == RawFieldAt(fields, cols.amount)
        debit       == AibNumber(debitText)
        credit      == AibNumber(creditText)
        afterDebit  == IF /\ trim(debitText) # <<>>
                          /\ ~IsNaN(debit)
                          /\ ~IsZero(debit)
                       THEN Negate(MathAbs(debit)) ELSE Zero
        afterCredit == IF /\ IsZero(afterDebit)
                          /\ trim(creditText) # <<>>
                          /\ ~IsNaN(credit)
                          /\ ~IsZero(credit)
                       THEN MathAbs(credit) ELSE afterDebit
    IN  IF IsZero(afterCredit) /\ amountText # <<>>
        THEN AibNumber(amountText) ELSE afterCredit

\* one row of parseAibCSV; as in parseRevolutCSV the catch block is never
\* entered
AibRow(acc, rawLine, lineNumber, cols) ==
    LET line   == trim(rawLine)
        fields == parseCSVLine(line)
        amount == AibAmount(fields, cols)
    IN  IF line = <<>> THEN Skip(acc, lineNumber, "Empty line")
        ELSE IF Len(fields) < 2 THEN Skip(acc, lineNumber, "Not enough columns")
        ELSE IF IsNaN(amount) THEN Skip(acc, lineNumber, "Invalid amount")
        ELSE Push(acc,
               [date |-> FieldAt(fields, cols.date),
                description |-> FieldAt(fields, cols.description),
                amount |-> amount,
                currency |-> OrDefault(FieldAt(fields, cols.currency), <<"E", "U", "R">>),
                balance |-> FieldAt(fields, cols.balance),
                product |-> IF cols.product # NoColumn
                            THEN FieldAt(fields, cols.product)
                            ELSE <<"A", "I", "B">>])

RECURSIVE AibRows(_, _, _, _)
AibRows(lines, k, cols, acc) ==
    IF k > Len(lines) THEN acc
    ELSE AibRows(lines, k + 1, cols, AibRow(acc, lines[k], k, cols))

\* a check of the date column alone
DateColumnMissing(cols) == cols.date = NoColumn

\* dateIdx === -1 || (amountIdx === -1 && debitIdx === -1 && creditIdx === -1)
RequiredColumnsMissing(cols) ==
    \/ cols.date = NoColumn
    \/ (cols.amount = NoColumn /\ cols.debit = NoColumn /\ cols.credit = NoColumn)

parseAibCSV(csvContent) ==
    LET lines == LinesOf(csvContent)
        cols  == AibColumns(normalizeHeaders(parseCSVLine(stripByteOrderMark(lines[1]))))
    IN  IF Len(lines) < 2 THEN Thrown("CSV file is empty or invalid")
        ELSE IF RequiredColumnsMissing(cols)
             THEN Thrown("CSV must contain date and amount (or debit/credit) columns")
        ELSE Returned(AibRows(lines, 2, cols, NoRows), Max(0, Len(lines) - 1))

-----------------------------------------------------------------------------
(* Dates of the statement parsers.                                         *)

\* An instant is a day counted from 1970-01-01 and a second of that day;
\* the time zone of the device is taken to be UTC.
Instant(days, seconds) == [valid |-> TRUE, days |-> days, seconds |-> seconds]

\* new Date(NaN)
InvalidDate == [valid |-> FALSE, days |-> 0, seconds |-> 0]

\* new Date(): the clock of the device, here noon of 2026-03-01
CurrentDay == 20513

CurrentTime == Instant(CurrentDay, 43200)

AllDigits(s) == \A k \in 1..Len(s) : IsDigit(s[k])

\* the days from 1970-01-01 to the given day of the proleptic Gregorian
\* calendar; linear in the day, so a day past the end of its month runs on
DaysFromCivil(year, month, day) ==
    LET y   == IF month <= 2 THEN year - 1 ELSE year
        era == y \div 400
        yoe == y - era * 400
        mp  == (month + 9) % 12
        doy == (153 * mp + 2) \div 5 + day - 1
        doe == yoe * 365 + yoe \div 4 - yoe \div 100 + doy
    IN  era * 146097 + doe - 719468

\* the year, month and day of a day number
CivilFromDays(days) ==
    LET z   == days + 719468
        era == z \div 146097
        doe == z - era * 146097
        yoe == (doe - doe \div 1460 + doe \div 36524 - doe \div 146096) \div 365
        doy == doe - (365 * yoe + yoe \div 4 - yoe \div 100)
        mp  == (5 * doy + 2) \div 153
        m   == IF mp < 10 THEN mp + 3 ELSE mp - 9
    IN  [year |-> yoe + era * 400 + (IF m <= 2 THEN 1 ELSE 0),
         month |-> m,
         day |-> doy - (153 * mp + 2) \div 5 + 1]

DaysInMonth(year, month) ==
    DaysFromCivil(IF month = 12 THEN year + 1 ELSE year,
                  IF month = 12 THEN 1 ELSE month + 1, 1)
        - DaysFromCivil(year, month, 1)

\* new Date(year, monthIndex, day): a year below 100 is of the 1900s, and
\* months and days out of range run on into the next ones
DateOf(year, monthIndex, day) ==
    LET fullYear == IF year <= 99 THEN 1900 + year ELSE year
    IN  Instant(DaysFromCivil(fullYear + (monthIndex \div 12), (monthIndex % 12) + 1, 1)
                    + day - 1, 0)

\* the date-time forms of new Date(string): YYYY-MM-DD, then THH:mm:ss,
\* then .sss, then Z; any other text is an invalid date
IsoShape(s) ==
    /\ Len(s) \in {10, 19, 20, 23, 24}
    /\ AllDigits(SubSeq(s, 1, 4)) /\ s[5] = "-"
    /\ AllDigits(SubSeq(s, 6, 7)) /\ s[8] = "-"
    /\ AllDigits(SubSeq(s, 9, 10))
    /\ Len(s) >= 19 =>
          /\ s[11] = "T"
          /\ AllDigits(SubSeq(s, 12, 13)) /\ s[14] = ":"
          /\ AllDigits(SubSeq(s, 15, 16)) /\ s[17] = ":"
          /\ AllDigits(SubSeq(s, 18, 19))
    /\ Len(s) \in {20, 24} => s[Len(s)] = "Z"
    /\ Len(s) >= 23 => s[20] = "." /\ AllDigits(SubSeq(s, 21, 23))

\* new Date(string)
DateParse(s) ==
    IF ~IsoShape(s) THEN InvalidDate
    ELSE LET year   == digitsValue(SubSeq(s, 1, 4))
             month  == digitsValue(SubSeq(s, 6, 7))
             day    == digitsValue(SubSeq(s, 9, 10))
             hour   == IF Len(s) >= 19 THEN digitsValue(SubSeq(s, 12, 13)) ELSE 0
             minute == IF Len(s) >= 19 THEN digitsValue(SubSeq(s, 15, 16)) ELSE 0
             second == IF Len(s) >= 19 THEN digitsValue(SubSeq(s, 18, 19)) ELSE 0
         IN  IF /\ month \in 1..12
                /\ day \in 1..DaysInMonth(year, month)
                /\ hour \in 0..23 /\ minute \in 0..59 /\ second \in 0..59
             THEN Instant(DaysFromCivil(year, month, day),
                          hour * 3600 + minute * 60 + second)
             ELSE InvalidDate

\* the decimal digits of n, padded with zeros to the width
RECURSIVE Pad(_, _)
Pad(n, width) ==
    IF width = 0 THEN <<>>
    ELSE Pad(n \div 10, width - 1) \o <<Digits[(n % 10) + 1]>>

\* Date.prototype.toISOString of a valid date of the years 0 to 9999
toISOString(date) ==
    LET civil == CivilFromDays(date.days)
    IN  Pad(civil.year, 4) \o <<"-">> \o Pad(civil.month, 2) \o <<"-">>
        \o Pad(civil.day, 2) \o <<"T">> \o Pad(date.seconds \div 3600, 2)
        \o <<":">> \o Pad((date.seconds \div 60) % 60, 2)
        \o <<":">> \o Pad(date.seconds % 60, 2)
        \o <<".", "0", "0", "0", "Z">>

\* /^(\d{1,2})\/(\d{1,2})\/(\d{2,4})$/
DatePattern(s) ==
    LET parts == split(s, "/")
    IN  /\ Len(parts) = 3
        /\ \A k \in 1..3 : AllDigits(parts[k])
        /\ Len(parts[1]) \in 1..2
        /\ Len(parts[2]) \in 1..2
        /\ Len(parts[3]) \in 2..4

-----------------------------------------------------------------------------
(* Canonicalization (convertRevolutToAppTransaction,                      *)
(* convertAibToAppTransaction).                                            *)

\* Math.round(Math.abs(amount) * 100)
MinorUnits(amount) == MathRound(Times100(MathAbs(amount)))

ExpenseTitle == <<"E", "x", "p", "e", "n", "s", "e">>

IncomeTitle == <<"I", "n", "c", "o", "m", "e">>

\* categorizeTransaction, awaited by both converters: it resolves to the id
\* of some category
categorizeTransaction(title, subtitle, isExpense) == "general"

NoTransaction == [title |-> <<>>, subtitle |-> <<>>, amount |-> Zero, kind |-> "income", date |-> <<>>, categoryId |-> "", currency |-> <<>>, displayName |-> <<>>]

\* date.toISOString() throws a RangeError on an invalid date
Converted(date, tx) ==
    IF date.valid
    THEN [thrown |-> FALSE, tx |-> [tx EXCEPT !.date = toISOString(date)]]
    ELSE [thrown |-> TRUE, tx |-> NoTransaction]

\* the started date; when that is no date, the completed date if the
\* record has one, else the clock
RevolutDate(revolut) ==
    LET normalizedPrimary  == replaceFirstSpace(revolut.startedDate)
        normalizedFallback == replaceFirstSpace(revolut.completedDate)
        date == IF normalizedPrimary # <<>>
                THEN DateParse(normalizedPrimary) ELSE InvalidDate
    IN  IF date.valid THEN date
        ELSE IF normalizedFallback # <<>> THEN DateParse(normalizedFallback)
        ELSE CurrentTime

convertRevolutToAppTransaction(revolut) ==
    LET isExpense    == IsNegative(revolut.amount)
        counterparty == IF isExpense THEN revolut.payee ELSE revolut.payer
        default      == IF isExpense THEN ExpenseTitle ELSE IncomeTitle
        swapped      == \/ revolut.description = <<>>
                        \/ toLowerCase(revolut.description) = <<"t", "r", "a", "n", "s", "f", "e", "r">>
        title        == IF swapped THEN counterparty ELSE revolut.description
        subtitle     == IF swapped THEN OrDefault(revolut.description, default)
                        ELSE counterparty
    IN  Converted(RevolutDate(revolut),
            [title |-> OrDefault(title, default),
             subtitle |-> OrDefault(subtitle, revolut.description),
             amount |-> MinorUnits(revolut.amount),
             kind |-> IF isExpense THEN "expense" ELSE "income",
             date |-> <<>>,
             categoryId |-> categorizeTransaction(title, subtitle, isExpense),
             currency |-> OrDefault(revolut.currency, <<"E", "U", "R">>),
             displayName |-> OrDefault(title, default)])

\* String.prototype.replace(/^prefix\s*/i, '')
stripPrefix(s, prefix) ==
    IF startsWith(toLowerCase(s), prefix)
    THEN trimStart(SubSeq(s, Len(prefix) + 1, Len(s))) ELSE s

\* String.prototype.replace(/\*{2}\d{4}\s*/g, '')
RECURSIVE removeCardMasks(_)
removeCardMasks(s) ==
    IF s = <<>> THEN <<>>
    ELSE IF /\ Len(s) >= 6
            /\ s[1] = "*" /\ s[2] = "*"
            /\ AllDigits(SubSeq(s, 3, 6))
         THEN removeCardMasks(trimStart(SubSeq(s, 7, Len(s))))
         ELSE <<Head(s)>> \o removeCardMasks(Tail(s))

\* String.prototype.replace(/\*+$/, '')
RECURSIVE stripTrailingAsterisks(_)
stripTrailingAsterisks(s) ==
    IF s # <<>> /\ s[Len(s)] = "*"
    THEN stripTrailingAsterisks(SubSeq(s, 1, Len(s) - 1)) ELSE s

cleanDisplayName(title) ==
    trim(stripTrailingAsterisks(removeCardMasks(
        stripPrefix(stripPrefix(stripPrefix(stripPrefix(title,
            <<"t", "s", "t", "-">>),
            <<"d", "/", "d">>),
            <<"v", "d", "p", "-">>),
            <<"v", "d", "c", "-">>))))

\* the day/month/year pattern, else new Date of the text, else the clock
AibDate(aib) ==
    LET trimmed == trim(aib.date)
        parts   == split(trimmed, "/")
        year    == digitsValue(parts[3])
        date    == IF aib.date = <<>> THEN InvalidDate
                   ELSE IF DatePattern(trimmed)
                   THEN DateOf(IF Len(parts[3]) = 2 THEN 2000 + year ELSE year,
                               digitsValue(parts[2]) - 1, digitsValue(parts[1]))
                   ELSE DateParse(replaceFirstSpace(trimmed))
    IN  IF date.valid THEN date ELSE CurrentTime

convertAibToAppTransaction(aib) ==
    LET isExpense == IsNegative(aib.amount)
        title     == OrDefault(aib.description,
                               IF isExpense THEN ExpenseTitle ELSE IncomeTitle)
        subtitle  == OrDefault(aib.product, <<"A", "I", "B">>)
    IN  Converted(AibDate(aib),
            [title |-> title,
             subtitle |-> subtitle,
             amount |-> MinorUnits(aib.amount),
             kind |-> IF isExpense THEN "expense" ELSE "income",
             date |-> <<>>,
             categoryId |-> categorizeTransaction(title, subtitle, isExpense),
             currency |-> OrDefault(aib.currency, <<"E", "U", "R">>),
             displayName |-> OrDefault(cleanDisplayName(title), title)])

-----------------------------------------------------------------------------
(* Format detection (detectCSVProvider).                                   *)

\* the header names the retail-bank columns
AibFingerprint(headerLower) ==
    \/ includes(headerLower, <<"p", "o", "s", "t", "e", "d", " ", "t", "r", "a", "n", "s", "a", "c", "t", "i", "o", "n", "s">>)
    \/ includes(headerLower, <<"p", "o", "s", "t", "e", "d", " ", "a", "c", "c", "o", "u", "n", "t">>)
    \/ /\ includes(headerLower, <<"d", "e", "b", "i", "t">>)
       /\ includes(headerLower, <<"c", "r", "e", "d", "i", "t">>)
       /\ includes(headerLower, <<"b", "a", "l", "a", "n", "c", "e">>)

\* the header names the card-provider columns
RevolutFingerprint(headerLower) ==
    \/ /\ includes(headerLower, <<"t", "y", "p", "e">>)
       /\ includes(headerLower, <<"p", "r", "o", "d", "u", "c", "t">>)
       /\ includes(headerLower, <<"s", "t", "a", "t", "e">>)
    \/ /\ includes(headerLower, <<"s", "t", "a", "r", "t", "e", "d", " ", "d", "a", "t", "e">>)
       /\ includes(headerLower, <<"c", "o", "m", "p", "l", "e", "t", "e", "d", " ", "d", "a", "t", "e">>)
    \/ /\ includes(headerLower, <<"a", "m", "o", "u", "n", "t">>)
       /\ includes(headerLower, <<"f", "e", "e">>)
       /\ includes(headerLower, <<"c", "u", "r", "r", "e", "n", "c", "y">>)
       /\ includes(headerLower, <<"s", "t", "a", "t", "e">>)

\* firstDataLine.split(',').map(col => col.trim())
ColumnsOf(firstDataLine) ==
    LET columns == split(firstDataLine, Comma)
    IN  [k \in 1..Len(columns) |-> trim(columns[k])]

\* the decision by the shape of the second line
StructureOf(lines) ==
    IF Len(lines) > 1
    THEN LET columns == ColumnsOf(lines[2])
         IN  IF Len(columns) >= 10 THEN "revolut"
             ELSE IF /\ Len(columns) >= 4
                     /\ Len(columns) <= 7
                     /\ \E k \in 1..Len(columns) : DatePattern(columns[k])
                  THEN "aib"
             ELSE "unknown"
    ELSE "unknown"

\* a detector that tries the card-provider fingerprint first
DecideRevolutFirst(headerLower, lines) ==
    IF RevolutFingerprint(headerLower) THEN "revolut"
    ELSE IF AibFingerprint(headerLower) THEN "aib"
    ELSE StructureOf(lines)

Decide(headerLower, lines) ==
    IF AibFingerprint(headerLower) THEN "aib"
    ELSE IF RevolutFingerprint(headerLower) THEN "revolut"
    ELSE StructureOf(lines)

detectCSVProvider(csvContent) ==
    IF trim(csvContent) = <<>> THEN "unknown"
    ELSE LET lines    == split(trim(csvContent), NewLine)
             nonEmpty == {k \in 1..Len(lines) : trim(lines[k]) # <<>>}
         IN  IF nonEmpty = {} THEN "unknown"
             ELSE Decide(toLowerCase(lines[CHOOSE k \in nonEmpty :
                                             \A h \in nonEmpty : k <= h]),
                         lines)

-----------------------------------------------------------------------------
(* The parsers applied to drawn inputs.                                    *)

\* longest field value written to a line
MaxFieldLen == 2

\* most fields written to one line
MaxFields == 2

\* longest line of arbitrary characters handed to the tokenizer
MaxLineLen == 4

LineChars == {"a", Comma, Quote}

\* the line a,"b""c"
ExampleLine == <<"a", Comma, Quote, "b", Quote, Quote, "c", Quote>>

WrittenLines ==
    {[fn |-> "parseCSVLine", written |-> TRUE, fields |-> fs, line |-> WriteLine(fs)] :
        fs \in SeqsUpTo(SeqsUpTo(LineChars, MaxFieldLen), MaxFields) \ {<<>>}}

ArbitraryLines ==
    {[fn |-> "parseCSVLine", written |-> FALSE, fields |-> <<>>, line |-> l] :
        l \in SeqsUpTo(LineChars, MaxLineLen) \cup {ExampleLine}}

\* Type,Product,Started Date,Completed Date,Description,Amount,Fee,Currency,State,Balance
RevolutHeader ==
    <<"T", "y", "p", "e", Comma, "P", "r", "o", "d", "u", "c", "t", Comma,
      "S", "t", "a", "r", "t", "e", "d", " ", "D", "a", "t", "e", Comma, "C",
      "o", "m", "p", "l", "e", "t", "e", "d", " ", "D", "a", "t", "e", Comma,
      "D", "e", "s", "c", "r", "i", "p", "t", "i", "o", "n", Comma, "A", "m",
      "o", "u", "n", "t", Comma, "F", "e", "e", Comma, "C", "u", "r", "r",
      "e", "n", "c", "y", Comma, "S", "t", "a", "t", "e", Comma, "B", "a",
      "l", "a", "n", "c", "e">>

\* Started Date,Completed Date,Description,Amount
RevolutShortHeader ==
    <<"S", "t", "a", "r", "t", "e", "d", " ", "D", "a", "t", "e", Comma, "C",
      "o", "m", "p", "l", "e", "t", "e", "d", " ", "D", "a", "t", "e", Comma,
      "D", "e", "s", "c", "r", "i", "p", "t", "i", "o", "n", Comma, "A", "m",
      "o", "u", "n", "t">>

\* Date,Description,Debit,Credit,Balance
AibHeader ==
    <<"D", "a", "t", "e", Comma, "D", "e", "s", "c", "r", "i", "p", "t", "i",
      "o", "n", Comma, "D", "e", "b", "i", "t", Comma, "C", "r", "e", "d",
      "i", "t", Comma, "B", "a", "l", "a", "n", "c", "e">>

\* Posted Account, Posted Transactions Date, Description, Debit Amount, Credit Amount
PostedHeader ==
    <<"P", "o", "s", "t", "e", "d", " ", "A", "c", "c", "o", "u", "n", "t",
      Comma, " ", "P", "o", "s", "t", "e", "d", " ", "T", "r", "a", "n", "s",
      "a", "c", "t", "i", "o", "n", "s", " ", "D", "a", "t", "e", Comma, " ",
      "D", "e", "s", "c", "r", "i", "p", "t", "i", "o", "n", Comma, " ", "D",
      "e", "b", "i", "t", " ", "A", "m", "o", "u", "n", "t", Comma, " ", "C",
      "r", "e", "d", "i", "t", " ", "A", "m", "o", "u", "n", "t">>

\* Date,Amount
PlainHeader ==
    <<"D", "a", "t", "e", Comma, "A", "m", "o", "u", "n", "t">>

\* Date,Description
NoAmountHeader ==
    <<"D", "a", "t", "e", Comma, "D", "e", "s", "c", "r", "i", "p", "t", "i",
      "o", "n">>

\* Description,Amount
NoDateHeader ==
    <<"D", "e", "s", "c", "r", "i", "p", "t", "i", "o", "n", Comma, "A", "m",
      "o", "u", "n", "t">>

\* Type,Product,State,Debit,Credit,Balance
BothHeader ==
    <<"T", "y", "p", "e", Comma, "P", "r", "o", "d", "u", "c", "t", Comma,
      "S", "t", "a", "t", "e", Comma, "D", "e", "b", "i", "t", Comma, "C",
      "r", "e", "d", "i", "t", Comma, "B", "a", "l", "a", "n", "c", "e">>

\* CARD_PAYMENT,Current,2024-01-05 10:00:00,2024-01-06 11:00:00,Shop,-12.50,0.00,EUR,COMPLETED,100.00
RevolutFullRow ==
    <<"C", "A", "R", "D", "_", "P", "A", "Y", "M", "E", "N", "T", Comma, "C",
      "u", "r", "r", "e", "n", "t", Comma, "2", "0", "2", "4", "-", "0", "1",
      "-", "0", "5", " ", "1", "0", ":", "0", "0", ":", "0", "0", Comma, "2",
      "0", "2", "4", "-", "0", "1", "-", "0", "6", " ", "1", "1", ":", "0",
      "0", ":", "0", "0", Comma, "S", "h", "o", "p", Comma, "-", "1", "2",
      ".", "5", "0", Comma, "0", ".", "0", "0", Comma, "E", "U", "R", Comma,
      "C", "O", "M", "P", "L", "E", "T", "E", "D", Comma, "1", "0", "0", ".",
      "0", "0">>

\* 2024-01-05 10:00:00,2024-01-06 11:00:00,Shop,-12.50
StartedRow ==
    <<"2", "0", "2", "4", "-", "0", "1", "-", "0", "5", " ", "1", "0", ":",
      "0", "0", ":", "0", "0", Comma, "2", "0", "2", "4", "-", "0", "1", "-",
      "0", "6", " ", "1", "1", ":", "0", "0", ":", "0", "0", Comma, "S", "h",
      "o", "p", Comma, "-", "1", "2", ".", "5", "0">>

\* ,2024-01-06 11:00:00,Pay,20
CompletedRow ==
    <<Comma, "2", "0", "2", "4", "-", "0", "1", "-", "0", "6", " ", "1", "1",
      ":", "0", "0", ":", "0", "0", Comma, "P", "a", "y", Comma, "2", "0">>

\* soon,,Gift,0
UndatedRow ==
    <<"s", "o", "o", "n", Comma, Comma, "G", "i", "f", "t", Comma, "0">>

\* ,pending,Fee,-1
PendingRow ==
    <<Comma, "p", "e", "n", "d", "i", "n", "g", Comma, "F", "e", "e", Comma,
      "-", "1">>

\* 2024-01-05,x,Big,Infinity
InfinityRow ==
    <<"2", "0", "2", "4", "-", "0", "1", "-", "0", "5", Comma, "x", Comma,
      "B", "i", "g", Comma, "I", "n", "f", "i", "n", "i", "t", "y">>

\* 05/01/2024,Shop,"45,00",,100.00
AibDebitRow ==
    <<"0", "5", "/", "0", "1", "/", "2", "0", "2", "4", Comma, "S", "h", "o",
      "p", Comma, Quote, "4", "5", Comma, "0", "0", Quote, Comma, Comma, "1",
      "0", "0", ".", "0", "0">>

\* 07/01/2024,Cafe,45.00,,
AibPointRow ==
    <<"0", "7", "/", "0", "1", "/", "2", "0", "2", "4", Comma, "C", "a", "f",
      "e", Comma, "4", "5", ".", "0", "0", Comma, Comma>>

\* 6/1/24,Pay,,12.50,112.50
AibCreditRow ==
    <<"6", "/", "1", "/", "2", "4", Comma, "P", "a", "y", Comma, Comma, "1",
      "2", ".", "5", "0", Comma, "1", "1", "2", ".", "5", "0">>

\* 2024-01-07,Misc,abc,,
AibIsoRow ==
    <<"2", "0", "2", "4", "-", "0", "1", "-", "0", "7", Comma, "M", "i", "s",
      "c", Comma, "a", "b", "c", Comma, Comma>>

\* n/a,Odd,0,0,
AibUndatedRow ==
    <<"n", "/", "a", Comma, "O", "d", "d", Comma, "0", Comma, "0", Comma>>

\* 05/01/2024,12.50,a,b
PlainRow ==
    <<"0", "5", "/", "0", "1", "/", "2", "0", "2", "4", Comma, "1", "2", ".",
      "5", "0", Comma, "a", Comma, "b">>

\* 05/01/2024,abc,x,y
BadAmountRow ==
    <<"0", "5", "/", "0", "1", "/", "2", "0", "2", "4", Comma, "a", "b", "c",
      Comma, "x", Comma, "y">>

\*  
BlankRow ==
    <<" ">>

\* x
ShortRow ==
    <<"x">>

CsvHeaders ==
    {RevolutHeader, RevolutShortHeader, AibHeader, PostedHeader,
     PlainHeader, NoAmountHeader, NoDateHeader, BothHeader}

CsvRows ==
    {RevolutFullRow, StartedRow, CompletedRow, UndatedRow, PendingRow,
     InfinityRow, AibDebitRow, AibCreditRow, AibIsoRow, AibUndatedRow, AibPointRow,
     PlainRow, BadAmountRow, BlankRow, ShortRow}

\* most lines after the header of a drawn statement
MaxRows == 2

\* a header and its rows, the lines ended by a line feed or by a carriage
\* return and a line feed; the empty and the blank statement
CsvContents ==
    {join(<<h>> \o rows, <<NewLine>>) : h \in CsvHeaders, rows \in SeqsUpTo(CsvRows, MaxRows)}
    \cup {join(<<h, r>>, <<CarriageReturn, NewLine>>) : h \in {RevolutShortHeader, AibHeader}, r \in {StartedRow, AibDebitRow}}
    \cup {<<>>, <<" ">>}

\* Date,Debit,Credit,Amount
AmountHeader ==
    <<"D", "a", "t", "e", Comma, "D", "e", "b", "i", "t", Comma, "C", "r",
      "e", "d", "i", "t", Comma, "A", "m", "o", "u", "n", "t">>

\* 1/1/24,5,7,9
DebitAndCreditRow ==
    <<"1", "/", "1", "/", "2", "4", Comma, "5", Comma, "7", Comma, "9">>

\* 1/1/24,-5,,
NegativeDebitRow ==
    <<"1", "/", "1", "/", "2", "4", Comma, "-", "5", Comma, Comma>>

\* 1/1/24,0,-7,9
ZeroDebitRow ==
    <<"1", "/", "1", "/", "2", "4", Comma, "0", Comma, "-", "7", Comma,
      "9">>

\* 1/1/24,,,-9
AmountOnlyRow ==
    <<"1", "/", "1", "/", "2", "4", Comma, Comma, Comma, "-", "9">>

\* 1/1/24,abc,,
BadDebitRow ==
    <<"1", "/", "1", "/", "2", "4", Comma, "a", "b", "c", Comma, Comma>>

\* 1/1/24,,,abc
BadAmountOnlyRow ==
    <<"1", "/", "1", "/", "2", "4", Comma, Comma, Comma, "a", "b", "c">>

AmountRows ==
    {DebitAndCreditRow, NegativeDebitRow, ZeroDebitRow, AmountOnlyRow,
     BadDebitRow, BadAmountOnlyRow}

\* statements with a debit, a credit and an amount column
AmountContents ==
    {join(<<AmountHeader>> \o rows, <<NewLine>>) : rows \in SeqsUpTo(AmountRows, MaxRows) \ {<<>>}}

AmountCalls == {[fn |-> "parseAibCSV", csvContent |-> c] : c \in AmountContents}

CsvFunctions == {"parseRevolutCSV", "parseAibCSV", "detectCSVProvider"}

CsvCalls == {[fn |-> f, csvContent |-> c] : f \in CsvFunctions, c \in CsvContents}

InitParseCalls ==
    /\ InitImport
    /\ argNew = <<>>
    /\ argExisting = <<>>
    /\ ret = NoCall
    /\ InitFail
    /\ InitRace
    /\ \/ input \in WrittenLines
       \/ input \in ArbitraryLines
       \/ input \in CsvCalls
       \/ input \in AmountCalls
    /\ output = NoOutput

ParseFrame == UNCHANGED <<importVars, detectVars, failVars, raceVars, input>>

CallParseCSVLine ==
    /\ input.fn = "parseCSVLine"
    /\ output = NoOutput
    /\ output' = [fn |-> "parseCSVLine", fields |-> parseCSVLine(input.line)]
    /\ ParseFrame

CallParseRevolutCSV ==
    /\ input.fn = "parseRevolutCSV"
    /\ output = NoOutput
    /\ output' = [fn |-> "parseRevolutCSV", stage |-> "parsed",
                  result |-> parseRevolutCSV(input.csvContent), converted |-> <<>>]
    /\ ParseFrame

CallParseAibCSV ==
    /\ input.fn = "parseAibCSV"
    /\ output = NoOutput
    /\ output' = [fn |-> "parseAibCSV", stage |-> "parsed",
                  result |-> parseAibCSV(input.csvContent), converted |-> <<>>]
    /\ ParseFrame

\* the paste screen hands every parsed record to the converter
ConvertRevolutRecords ==
    /\ output.fn = "parseRevolutCSV"
    /\ output.stage = "parsed"
    /\ output.result.transactions # <<>>
    /\ output' = [output EXCEPT !.stage = "converted",
                     !.converted = [k \in 1..Len(output.result.transactions) |->
                         convertRevolutToAppTransaction(output.result.transactions[k])]]
    /\ ParseFrame

ConvertAibRecords ==
    /\ output.fn = "parseAibCSV"
    /\ output.stage = "parsed"
    /\ output.result.transactions # <<>>
    /\ output' = [output EXCEPT !.stage = "converted",
                     !.converted = [k \in 1..Len(output.result.transactions) |->
                         convertAibToAppTransaction(output.result.transactions[k])]]
    /\ ParseFrame

CallDetectCSVProvider ==
    /\ input.fn = "detectCSVProvider"
    /\ output = NoOutput
    /\ output' = [fn |-> "detectCSVProvider", provider |-> detectCSVProvider(input.csvContent)]
    /\ ParseFrame

NextParse ==
    \/ CallParseCSVLine
    \/ CallParseRevolutCSV
    \/ CallParseAibCSV
    \/ ConvertRevolutRecords
    \/ ConvertAibRecords
    \/ CallDetectCSVProvider

SpecParse == InitParseCalls /\ [][NextParse]_vars

-----------------------------------------------------------------------------
(* Properties of the parsers.                                              *)

Parsers == {"parseRevolutCSV", "parseAibCSV"}

\* a parser was called and returned
ParserReturned == output.fn \in Parsers /\ ~output.result.thrown

\* the lines of the statement after its header
RowsOf(csvContent) == Len(split(csvContent, NewLine)) - 1

\* C14: whenever parseRevolutCSV or parseAibCSV returns, totalRows is the
\* number of records plus the number of skips, the skip list is as long as
\* the skip counter says, and the lines after the header are accounted for
\* one by one: each is either listed once as a skip or gave one record.
C14_SkipAccounting ==
    ParserReturned =>
        LET r == output.result
        IN  /\ r.totalRows = Len(r.transactions) + r.skipped
            /\ Len(r.skippedDetails) = r.skipped
            /\ r.totalRows = RowsOf(input.csvContent)
            /\ \A k \in 1..Len(r.skippedDetails) :
                    /\ r.skippedDetails[k].line \in 2..(RowsOf(input.csvContent) + 1)
                    /\ \A j \in 1..(k - 1) :
                            r.skippedDetails[j].line < r.skippedDetails[k].line

\* a statement of two rows gave one record and one skip
C14_Witness ==
    /\ ParserReturned
    /\ output.stage = "parsed"
    /\ Len(output.result.transactions) = 1
    /\ output.result.skipped = 1
    /\ output.result.totalRows = 2

\* C20: a line written from a sequence of fields, each enclosed in quotes
\* with its quotes doubled and the fields joined by commas, is tokenized to
\* exactly those fields; the line a,"b""c" gives the two fields a and b"c;
\* every line gives at least one field.
C20_TokenizerRoundTrip ==
    output.fn = "parseCSVLine" =>
        /\ Len(output.fields) >= 1
        /\ input.written => output.fields = input.fields
        /\ input.line = ExampleLine => output.fields = <<<<"a">>, <<"b", Quote, "c">>>>

\* two fields were written, one holding a comma and a quote, and read back
C20_Witness ==
    /\ output.fn = "parseCSVLine"
    /\ input.written
    /\ Len(input.fields) = 2
    /\ input.fields[1] = <<Comma, Quote>>
    /\ Len(output.fields) = 2

\* a parser returned and every record went through its converter
RecordsConverted(parser) == output.fn = parser /\ output.stage = "converted"

\* the date the resolution order gives a card-provider record: the started
\* date if it is a date, else the completed date if it is a date, else the
\* clock
ResolvedRevolutDate(revolut) ==
    LET primary  == DateParse(replaceFirstSpace(revolut.startedDate))
        fallback == DateParse(replaceFirstSpace(revolut.completedDate))
    IN  IF primary.valid THEN primary
        ELSE IF fallback.valid THEN fallback
        ELSE CurrentTime

\* the date the resolution order gives a retail-bank record: the
\* day/month/year pattern, else the text as a date, else the clock
ResolvedAibDate(aib) ==
    LET trimmed == trim(aib.date)
        parts   == split(trimmed, "/")
        generic == DateParse(replaceFirstSpace(trimmed))
    IN  IF DatePattern(trimmed)
        THEN DateOf(IF Len(parts[3]) = 2 THEN 2000 + digitsValue(parts[3])
                    ELSE digitsValue(parts[3]),
                    digitsValue(parts[2]) - 1, digitsValue(parts[1]))
        ELSE IF generic.valid THEN generic
        ELSE CurrentTime

\* C15: whatever the date fields of a raw record hold, its converter
\* returns, without throwing, a transaction whose date is a valid ISO date:
\* for the card provider the started date, else the completed date, else
\* the current time; for the retail bank the day/month/year pattern, else
\* the text parsed as a date, else the current time.
C15_DateNeverFatal ==
    /\ RecordsConverted("parseRevolutCSV") =>
          \A k \in 1..Len(output.converted) :
              /\ ~output.converted[k].thrown
              /\ DateParse(output.converted[k].tx.date)
                    = ResolvedRevolutDate(output.result.transactions[k])
    /\ RecordsConverted("parseAibCSV") =>
          \A k \in 1..Len(output.converted) :
              /\ ~output.converted[k].thrown
              /\ DateParse(output.converted[k].tx.date)
                    = ResolvedAibDate(output.result.transactions[k])

\* the same for the retail-bank converter alone
C15_AibDateNeverFatal ==
    RecordsConverted("parseAibCSV") =>
        \A k \in 1..Len(output.converted) :
            /\ ~output.converted[k].thrown
            /\ DateParse(output.converted[k].tx.date)
                  = ResolvedAibDate(output.result.transactions[k])

\* a card-provider record with no started date and a completed date that
\* is no date made the converter throw
C15_ConverterThrew ==
    /\ RecordsConverted("parseRevolutCSV")
    /\ \E k \in 1..Len(output.converted) :
          /\ output.converted[k].thrown
          /\ output.result.transactions[k].startedDate = <<>>
          /\ output.result.transactions[k].completedDate # <<>>

\* the names of the header line, trimmed and in lower case
HeaderNames(csvContent) ==
    normalizeHeaders(parseCSVLine(LinesOf(csvContent)[1]))

\* some header name is, or contains, one of the aliases
Names(csvContent, aliases) ==
    LET names == HeaderNames(csvContent)
    IN  \E k \in 1..Len(names) : \E a \in 1..Len(aliases) :
            includes(names[k], aliases[a])

\* the statement has fewer than two lines or no column named amount
RevolutFatal(csvContent) ==
    \/ RowsOf(csvContent) < 1
    \/ LET names == HeaderNames(csvContent)
       IN  \A k \in 1..Len(names) : names[k] # AmountAliases[1]

\* the statement has fewer than two lines, no date column, or none of the
\* amount, debit and credit columns
AibFatal(csvContent) ==
    \/ RowsOf(csvContent) < 1
    \/ ~Names(csvContent, DateAliases)
    \/ ~Names(csvContent, AmountAliases \o DebitAliases \o CreditAliases)

RowReasons == {"Empty line", "Not enough columns", "Invalid amount", "Parse error"}

\* C16: parseRevolutCSV throws, with no records and no skip list, exactly
\* when the statement has fewer than two lines or its header has no amount
\* column; parseAibCSV throws exactly when the statement has fewer than two
\* lines, no date column, or none of the amount, debit and credit columns;
\* a call that returns lists only row-level reasons in its skips.
C16_FatalColumns ==
    /\ output.fn = "parseRevolutCSV" =>
          output.result.thrown = RevolutFatal(input.csvContent)
    /\ output.fn = "parseAibCSV" =>
          output.result.thrown = AibFatal(input.csvContent)
    /\ output.fn \in Parsers =>
          /\ output.result.thrown =>
                /\ output.result.transactions = <<>>
                /\ output.result.skippedDetails = <<>>
                /\ output.stage = "parsed"
          /\ \A k \in 1..Len(output.result.skippedDetails) :
                output.result.skippedDetails[k].reason \in RowReasons

\* parseAibCSV threw on a statement with rows whose header names a date
\* column but none of the amount, debit and credit columns
C16_Witness ==
    /\ output.fn = "parseAibCSV"
    /\ output.result.thrown
    /\ RowsOf(input.csvContent) = 2
    /\ Names(input.csvContent, DateAliases)
    /\ ~Names(input.csvContent, AmountAliases \o DebitAliases \o CreditAliases)

\* a converter ran on the records of either parser
AnyRecordsConverted == output.fn \in Parsers /\ output.stage = "converted"

\* the canonical amount and kind of one converted record agree with its
\* source amount: a non-negative integer, round(|source| * 100), and an
\* expense exactly for a negative source
AmountAgrees(source, tx) ==
    /\ IsInteger(tx.amount)
    /\ tx.amount.num >= 0
    /\ source.kind = "finite" =>
          2 * Pow10(source.scale) * tx.amount.num
              \in (200 * Abs(source.num) - Pow10(source.scale) + 1)
                    ..(200 * Abs(source.num) + Pow10(source.scale))
    /\ (tx.kind = "expense") = (source.kind # "NaN" /\ source.num < 0)
    /\ tx.kind \in Kinds
    /\ source = Finite(-1250, 2) => tx.kind = "expense" /\ tx.amount = Finite(1250, 0)

\* C17: for every raw record of either dialect the canonical amount is a
\* non-negative integer equal to round(|source amount| * 100), and the
\* kind is expense exactly when the source amount is negative; a source
\* amount of -12.50 gives an expense of 1250.
C17_MinorUnits ==
    AnyRecordsConverted =>
        \A k \in 1..Len(output.converted) :
            ~output.converted[k].thrown =>
                AmountAgrees(output.result.transactions[k].amount,
                             output.converted[k].tx)

\* the same for the records whose source amount is finite
C17_FiniteMinorUnits ==
    AnyRecordsConverted =>
        \A k \in 1..Len(output.converted) :
            /\ ~output.converted[k].thrown
            /\ output.result.transactions[k].amount.kind = "finite"
            => AmountAgrees(output.result.transactions[k].amount,
                            output.converted[k].tx)

\* a row whose amount field reads Infinity became a record and was given
\* an amount that is no integer
C17_InfiniteAmount ==
    /\ AnyRecordsConverted
    /\ \E k \in 1..Len(output.converted) :
          /\ ~output.converted[k].thrown
          /\ output.result.transactions[k].amount.kind = "infinite"
          /\ ~IsInteger(output.converted[k].tx.amount)

\* the number num / 10^scale a source amount holds, in hundredths
Hundredths(x) == (x.num * 100) \div Pow10(x.scale)

\* parseAibCSV returned a record for every line after the header, so the
\* k-th record is the record of line k + 1
EveryRowParsed ==
    /\ output.fn = "parseAibCSV"
    /\ ~output.result.thrown
    /\ output.result.skipped = 0

\* the trimmed text of a named column in the line of the k-th record
CellOf(k, aliases) ==
    LET fields == parseCSVLine(trim(LinesOf(input.csvContent)[k + 1]))
        named  == AibColumnIndex(HeaderNames(input.csvContent), aliases)
    IN  FieldAt(fields, named)

\* the k-th record has the given source amount and, once converted, the
\* given kind and amount
RowGives(k, hundredths, kind, minorUnits) ==
    /\ output.result.transactions[k].amount.kind = "finite"
    /\ Hundredths(output.result.transactions[k].amount) = hundredths
    /\ output.stage = "converted" /\ ~output.converted[k].thrown =>
          /\ output.converted[k].tx.kind = kind
          /\ output.converted[k].tx.amount = Finite(minorUnits, 0)

DebitOnly(k, text) ==
    /\ CellOf(k, DebitAliases) = text
    /\ CellOf(k, CreditAliases) = <<>>

\* C18 as stated: a dialect-B row whose Debit field is 45,00 and whose
\* Credit field is empty is parsed to the raw amount -45.00 and
\* canonicalized to an expense of 4500 minor units.
C18_DecimalComma ==
    EveryRowParsed =>
        \A k \in 1..Len(output.result.transactions) :
            DebitOnly(k, <<"4", "5", Comma, "0", "0">>) =>
                RowGives(k, -4500, "expense", 4500)

\* C18, corrected: the comma of a numeric field is removed as a thousands
\* separator, so a Debit field of 45,00 with an empty Credit field is
\* parsed to the raw amount -4500 and canonicalized to an expense of
\* 450000 minor units; it is the Debit field 45.00 that gives -45.00 and
\* an expense of 4500.
C18_CommaStripped ==
    EveryRowParsed =>
        \A k \in 1..Len(output.result.transactions) :
            /\ DebitOnly(k, <<"4", "5", Comma, "0", "0">>) =>
                  RowGives(k, -450000, "expense", 450000)
            /\ DebitOnly(k, <<"4", "5", ".", "0", "0">>) =>
                  RowGives(k, -4500, "expense", 4500)

\* a row with the Debit field 45,00 and a row with the Debit field 45.00
\* were parsed and converted
C18_Witness ==
    /\ EveryRowParsed
    /\ output.stage = "converted"
    /\ Len(output.result.transactions) = 2
    /\ DebitOnly(1, <<"4", "5", Comma, "0", "0">>)
    /\ DebitOnly(2, <<"4", "5", ".", "0", "0">>)
    /\ ~output.converted[1].thrown

\* the lines of the statement without its leading and trailing white space
TrimmedLines(csvContent) == split(trim(csvContent), NewLine)

\* the header of the statement, in lower case
HeaderLower(csvContent) == toLowerCase(TrimmedLines(csvContent)[1])

\* the fields of the second line, split at every comma
SecondLine(csvContent) ==
    IF Len(TrimmedLines(csvContent)) >= 2
    THEN ColumnsOf(TrimmedLines(csvContent)[2]) ELSE <<>>

\* C19: detectCSVProvider answers 'unknown' for an empty or blank
\* statement; else 'aib' if the lower-cased header shows the dialect-B
\* fingerprint; else 'revolut' if it shows the dialect-A fingerprint; else
\* by the second line, 'revolut' for 10 or more columns and 'aib' for 4 to
\* 7 columns with a field shaped like a day/month/year date; else
\* 'unknown'. A header showing both fingerprints is 'aib'.
C19_OrderedDetection ==
    output.fn = "detectCSVProvider" =>
        IF trim(input.csvContent) = <<>> THEN output.provider = "unknown"
        ELSE LET header  == HeaderLower(input.csvContent)
                 columns == SecondLine(input.csvContent)
                 dated   == \E k \in 1..Len(columns) : DatePattern(columns[k])
             IN  /\ AibFingerprint(header) => output.provider = "aib"
                 /\ ~AibFingerprint(header) /\ RevolutFingerprint(header)
                        => output.provider = "revolut"
                 /\ ~AibFingerprint(header) /\ ~RevolutFingerprint(header) =>
                        /\ Len(columns) >= 10 => output.provider = "revolut"
                        /\ Len(columns) \in 4..7 /\ dated => output.provider = "aib"
                        /\ Len(columns) < 4 \/ Len(columns) \in 8..9
                             \/ (Len(columns) \in 4..7 /\ ~dated)
                                => output.provider = "unknown"
                 /\ startsWith(input.csvContent, RevolutHeader)
                        => output.provider = "revolut"
                 /\ startsWith(input.csvContent, AibHeader)
                        => output.provider = "aib"
                 /\ startsWith(input.csvContent, PlainHeader \o <<NewLine>> \o PlainRow)
                        => output.provider = "aib"

\* a header showing both fingerprints was classified
C19_Witness ==
    /\ output.fn = "detectCSVProvider"
    /\ trim(input.csvContent) # <<>>
    /\ AibFingerprint(HeaderLower(input.csvContent))
    /\ RevolutFingerprint(HeaderLower(input.csvContent))
    /\ output.provider = "aib"
-----------------------------------------------------------------------------
(* The amount of a dialect-B row.                                          *)

AibReturned == output.fn = "parseAibCSV" /\ ~output.result.thrown

\* the lines of the statement that gave a record, in order
RecordLines ==
    LET skippedLines == {output.result.skippedDetails[k].line :
                            k \in 1..Len(output.result.skippedDetails)}
        dataLines    == [i \in 1..(Len(LinesOf(input.csvContent)) - 1) |-> i + 1]
    IN  SelectSeq(dataLines, LAMBDA l : l \notin skippedLines)

\* the trimmed text of a named column in a line of the statement
CellAt(line, aliases) ==
    LET fields == parseCSVLine(trim(LinesOf(input.csvContent)[line]))
        named  == AibColumnIndex(HeaderNames(input.csvContent), aliases)
    IN  FieldAt(fields, named)

\* a field that is not empty and parses to a number other than zero
Supplies(text) ==
    /\ text # <<>>
    /\ ~IsNaN(AibNumber(text))
    /\ ~IsZero(AibNumber(text))

\* C21: the amount of every record parseAibCSV returns follows the
\* precedence of the columns: a Debit field that is non-empty and parses to
\* a non-zero number gives minus its absolute value, whatever the Credit and
\* Amount fields hold; otherwise a Credit field that is non-empty and parses
\* to a non-zero number gives its absolute value; otherwise a non-empty
\* Amount field gives its number with the sign as written.
C21_AmountPrecedence ==
    AibReturned =>
        LET r     == output.result
            lines == RecordLines
        IN  /\ Len(lines) = Len(r.transactions)
            /\ \A k \in 1..Len(r.transactions) :
                  LET debit  == CellAt(lines[k], DebitAliases)
                      credit == CellAt(lines[k], CreditAliases)
                      amount == CellAt(lines[k], AmountAliases)
                  IN  IF Supplies(debit)
                      THEN r.transactions[k].amount = Negate(MathAbs(AibNumber(debit)))
                      ELSE IF Supplies(credit)
                      THEN r.transactions[k].amount = MathAbs(AibNumber(credit))
                      ELSE amount # <<>> =>
                              r.transactions[k].amount = AibNumber(amount)

\* a statement whose first row has a Debit, a Credit and an Amount field,
\* the debit a positive number, and whose second row has the Amount field
\* alone, a negative number, gave the records -5 and -9
C21_Witness ==
    /\ AibReturned
    /\ Len(output.result.transactions) = 2
    /\ output.result.skipped = 0
    /\ Supplies(CellAt(2, DebitAliases))
    /\ ~IsNegative(AibNumber(CellAt(2, DebitAliases)))
    /\ Supplies(CellAt(2, CreditAliases))
    /\ Supplies(CellAt(2, AmountAliases))
    /\ CellAt(3, DebitAliases) = <<>>
    /\ CellAt(3, CreditAliases) = <<>>
    /\ IsNegative(AibNumber(CellAt(3, AmountAliases)))
    /\ output.result.transactions[1].amount = Finite(-5, 0)
    /\ output.result.transactions[2].amount = Finite(-9, 0)
-----------------------------------------------------------------------------
(* Rows whose amount is not a number.                                      *)

RevolutReturned == output.fn = "parseRevolutCSV" /\ ~output.result.thrown

\* a line that is not blank and has the fields a parser asks for
DataLine(line, minimum) ==
    LET text == trim(LinesOf(input.csvContent)[line])
    IN  text # <<>> /\ Len(parseCSVLine(text)) >= minimum

SkippedAs(line, reason) ==
    \E k \in 1..Len(output.result.skippedDetails) :
        /\ output.result.skippedDetails[k].line = line
        /\ output.result.skippedDetails[k].reason = reason

\* the trimmed Amount field of a line of a dialect-A statement
RevolutAmountCell(line) ==
    LET fields == parseCSVLine(trim(LinesOf(input.csvContent)[line]))
    IN  FieldAt(fields, FindExact(HeaderNames(input.csvContent), AmountAliases[1]))

\* the field a dialect-B row takes its amount from: the first of the
\* Debit, Credit and Amount fields that is not empty
SupplyingCell(line) ==
    LET debit  == CellAt(line, DebitAliases)
        credit == CellAt(line, CreditAliases)
    IN  IF debit # <<>> THEN debit
        ELSE IF credit # <<>> THEN credit
        ELSE CellAt(line, AmountAliases)

\* C22: in both parsers a data row whose amount is written but is not a
\* number gives no record and is listed as a skip with the reason
\* 'Invalid amount'; in dialect B the amount is the one written in the
\* Debit, Credit or Amount field the row takes it from.
C22_InvalidAmountSkipped ==
    /\ RevolutReturned =>
          \A line \in 2..Len(LinesOf(input.csvContent)) :
              /\ DataLine(line, 3)
              /\ RevolutAmountCell(line) # <<>>
              /\ IsNaN(parseFloat(RevolutAmountCell(line)))
              => SkippedAs(line, "Invalid amount")
    /\ AibReturned =>
          \A line \in 2..Len(LinesOf(input.csvContent)) :
              /\ DataLine(line, 2)
              /\ SupplyingCell(line) # <<>>
              /\ IsNaN(AibNumber(SupplyingCell(line)))
              => SkippedAs(line, "Invalid amount")

\* the part of C22 the parsers keep: a non-numeric Amount field of dialect A,
\* and a non-numeric Amount field of a dialect-B row whose Debit and Credit
\* fields give no amount, are skipped as 'Invalid amount'
C22_AmountFieldSkipped ==
    /\ RevolutReturned =>
          \A line \in 2..Len(LinesOf(input.csvContent)) :
              /\ DataLine(line, 3)
              /\ RevolutAmountCell(line) # <<>>
              /\ IsNaN(parseFloat(RevolutAmountCell(line)))
              => SkippedAs(line, "Invalid amount")
    /\ AibReturned =>
          \A line \in 2..Len(LinesOf(input.csvContent)) :
              /\ DataLine(line, 2)
              /\ ~Supplies(CellAt(line, DebitAliases))
              /\ ~Supplies(CellAt(line, CreditAliases))
              /\ CellAt(line, AmountAliases) # <<>>
              /\ IsNaN(AibNumber(CellAt(line, AmountAliases)))
              => SkippedAs(line, "Invalid amount")

\* a dialect-B row whose only amount is a non-numeric Debit field gave a
\* record with the amount 0
C22_DebitNotRejected ==
    /\ AibReturned
    /\ \E k \in 1..Len(output.result.transactions) :
          LET line == RecordLines[k]
          IN  /\ CellAt(line, DebitAliases) # <<>>
              /\ IsNaN(AibNumber(CellAt(line, DebitAliases)))
              /\ CellAt(line, CreditAliases) = <<>>
              /\ CellAt(line, AmountAliases) = <<>>
              /\ output.result.transactions[k].amount = Zero
-----------------------------------------------------------------------------
(* Records no strategy matched.                                            *)

\* an import of the loaded statement has run
Imported == last.provider # "none"

\* the new candidates a strategy of the latest import paired: with a stored
\* record, with another candidate of the statement, or, in the Revolut
\* flow, within the fetched documents followed by the candidates
MatchedNew ==
    {last.detected[k].newIndex : k \in 1..Len(last.detected)}
      \cup {last.internalPairs[k].index1 : k \in 1..Len(last.internalPairs)}
      \cup {last.internalPairs[k].index2 : k \in 1..Len(last.internalPairs)}
      \cup (IF last.provider # "revolut_import" THEN {}
            ELSE {i - Len(last.db) :
                    i \in {j \in Range(detectTransferPairs(
                                          existingAsTransactions(last.db)
                                            \o last.deduped).indices) :
                              j > Len(last.db)}})

\* the ids of the stored records a strategy paired with a new candidate
MatchedExisting ==
    {last.detected[k].existingId : k \in 1..Len(last.detected)}

\* C23: a new candidate no strategy matched is queued with the category and
\* the two analytics flags it had after canonicalization and with no
\* matchedTransferId, and a stored record no strategy matched is named by
\* no update of the import.
C23_UnmatchedLeftAlone ==
    Imported =>
        /\ Len(last.queuedTxs) = Len(last.deduped)
        /\ \A k \in 1..Len(last.deduped) :
              k \notin MatchedNew =>
                  /\ last.queuedTxs[k].categoryId = last.deduped[k].categoryId
                  /\ last.queuedTxs[k].excludeFromAnalytics
                        = last.deduped[k].excludeFromAnalytics
                  /\ last.queuedTxs[k].isAnalyticsProtected
                        = last.deduped[k].isAnalyticsProtected
                  /\ last.queuedTxs[k].matchedTransferId = NoId
        /\ \A r \in Range(last.db \o last.queue) :
              r.id \notin MatchedExisting =>
                  \A c \in Range(last.updateCalls) \cup Range(last.queueUpdates) :
                      c.id # r.id

\* an import paired one candidate with a stored record, queued it as a
\* transfer, and queued another candidate that no strategy matched
C23_Witness ==
    /\ Imported
    /\ last.detected # <<>>
    /\ \E k \in 1..Len(last.deduped) :
          k \in MatchedNew /\ IsTransfer(last.queuedTxs[k])
    /\ \E k \in 1..Len(last.deduped) : k \notin MatchedNew

\* an import paired its candidate with one stored record, sent updates, and
\* left another stored record unmatched
C23_UnmatchedExisting ==
    /\ Imported
    /\ last.detected # <<>>
    /\ last.updateCalls # <<>>
    /\ \E r \in Range(last.db \o last.queue) : r.id \notin MatchedExisting
-----------------------------------------------------------------------------
(* The balance snapshot and the order of the awaited calls (checked under  *)
(* SpecFail).                                                              *)

\* the positions of the calls of one function among the awaited calls
CallsOf(fn) == {k \in 1..Len(attempt.awaited) : attempt.awaited[k].fn = fn}

\* C24: in a run of either handler every call of queueTransactionsForSync
\* comes after a call of saveBalanceSnapshot with the same batch id,
\* transactions are persisted only through that call, each of them carries
\* that batch id, and a run in which saveBalanceSnapshot failed inside
\* still persists all its transactions.
C24_SnapshotBeforePersistence ==
    attempt.status # "none" =>
        /\ \A q \in CallsOf("queueTransactionsForSync") :
              \E s \in CallsOf("saveBalanceSnapshot") :
                  /\ s < q
                  /\ attempt.awaited[s].batch = attempt.awaited[q].batch
                  /\ Len(attempt.queuedBatch) = Len(last.queuedTxs)
                  /\ \A k \in 1..Len(attempt.queuedBatch) :
                        attempt.queuedBatch[k] = attempt.awaited[s].batch
        /\ last.queuedTxs # <<>> => CallsOf("queueTransactionsForSync") # {}
        /\ attempt.failed.step = "snapshot" =>
              /\ Len(last.queuedTxs) = attempt.candidates
              /\ attempt.status = "success"

\* saveBalanceSnapshot failed inside a run that had flagged a stored record
\* and then persisted its transactions
C24_Witness ==
    /\ attempt.failed.step = "snapshot"
    /\ last.queuedTxs # <<>>
    /\ \E k \in CallsOf("updateTransaction") :
          attempt.awaited[k].flags /\ k < CHOOSE s \in CallsOf("saveBalanceSnapshot") : TRUE
\* C25: the updates that set the transfer flags on stored records are sent
\* only after queueTransactionsForSync, so a run in which that call fails
\* leaves every stored record as it was.
C25_FlagsAfterPersistence ==
    attempt.status # "none" =>
        /\ \A k \in CallsOf("updateTransaction") :
              attempt.awaited[k].flags =>
                  \E q \in CallsOf("queueTransactionsForSync") : q < k
        /\ attempt.failed.step = "queue" => db \o queue = last.db \o last.queue

\* what the handlers keep of C25: the updates that link a stored record to
\* its new counterpart are sent only after queueTransactionsForSync, and a
\* run in which that call fails sends none of them
C25_LinksAfterPersistence ==
    attempt.status # "none" =>
        /\ \A k \in CallsOf("updateTransaction") :
              ~attempt.awaited[k].flags =>
                  \E q \in CallsOf("queueTransactionsForSync") : q < k
        /\ attempt.failed.step = "queue" =>
              /\ last.queuedTxs = <<>>
              /\ \A c \in Range(last.updateCalls) : IsFlagCall(c)

\* queueTransactionsForSync failed, nothing was persisted, and a stored
\* record that was no transfer before the run is one after it
C25_FlaggedWithoutImport ==
    /\ attempt.failed.step = "queue"
    /\ last.queuedTxs = <<>>
    /\ \E r \in Range(db \o queue) :
          /\ IsTransfer(r)
          /\ \E old \in Range(last.db \o last.queue) :
                old.id = r.id /\ ~IsTransfer(old)
-----------------------------------------------------------------------------
(* The pairs of one AIB import (checked under Spec).                       *)

AibImported == last.provider = "aib_import"

\* the updates of the latest import that set a matchedTransferId
LinkUpdates ==
    {c \in Range(last.updateCalls) \cup Range(last.queueUpdates) :
        "matchedTransferId" \in DOMAIN c.updates}

\* C26: the pairs of the marker strategy and of the cross-bank strategy of
\* one AIB import are together one-to-one: no new candidate is paired with
\* two stored records, no stored record with two new candidates, and the
\* stored record a new transaction names as its counterpart is the only
\* one updated to point back at it.
C26_CombinedOneToOne ==
    AibImported =>
        /\ \A j, k \in 1..Len(last.detected) :
              /\ last.detected[j].newIndex = last.detected[k].newIndex
                    => last.detected[j].existingId = last.detected[k].existingId
              /\ last.detected[j].existingId = last.detected[k].existingId
                    => last.detected[j].newIndex = last.detected[k].newIndex
        /\ \A n \in 1..Len(last.queuedTxs) : \A c \in LinkUpdates :
              c.updates.matchedTransferId = last.queuedTxs[n].id
                  => c.id = last.queuedTxs[n].matchedTransferId

\* what the handler keeps of C26: the pairs of each strategy taken alone are
\* one-to-one
C26_EachStrategyOneToOne ==
    AibImported =>
        \A j, k \in 1..Len(last.detected) :
            last.detected[j].strategy = last.detected[k].strategy /\ j # k =>
                /\ last.detected[j].newIndex # last.detected[k].newIndex
                /\ last.detected[j].existingId # last.detected[k].existingId

\* one new candidate was paired with one stored record by the marker
\* strategy and with another by the cross-bank strategy, and both stored
\* records were updated to point at it
C26_PairedTwice ==
    /\ AibImported
    /\ \E j, k \in 1..Len(last.detected) :
          /\ last.detected[j].strategy = "aib"
          /\ last.detected[k].strategy = "cross"
          /\ last.detected[j].newIndex = last.detected[k].newIndex
          /\ last.detected[j].existingId # last.detected[k].existingId
          /\ \A e \in {last.detected[j].existingId, last.detected[k].existingId} :
                \E c \in LinkUpdates :
                    /\ c.id = e
                    /\ c.updates.matchedTransferId
                          = last.queuedTxs[last.detected[j].newIndex].id
-----------------------------------------------------------------------------
(* The links of the stored records over a sequence of imports (checked     *)
(* under Spec).                                                            *)

\* the stored record with a given id, as the latest import found it
FoundWith(id) == CHOOSE r \in Range(last.db \o last.queue) : r.id = id

\* C27: after every completed import the links of the stored records are
\* symmetric, a record that names a counterpart being named by it in turn,
\* and no import pairs a new candidate with a stored record that already
\* had a counterpart when the import found it.
C27_LinksSymmetricAndStable ==
    /\ \A a \in Range(Stored) :
          a.matchedTransferId # NoId =>
              \E b \in Range(Stored) :
                  b.id = a.matchedTransferId /\ b.matchedTransferId = a.id
    /\ \A k \in 1..Len(last.detected) :
          FoundWith(last.detected[k].existingId).matchedTransferId = NoId

\* a stored record names a counterpart that names another record
C27_OneSidedLink ==
    \E a, b \in Range(Stored) :
        /\ a.matchedTransferId = b.id
        /\ b.matchedTransferId \notin {NoId, a.id}

\* an import paired a new candidate with a stored record that an earlier
\* import had linked to its counterpart, and linked it anew
C27_LinkedRecordPairedAgain ==
    \E k \in 1..Len(last.detected) :
        /\ FoundWith(last.detected[k].existingId).matchedTransferId # NoId
        /\ \E r \in Range(Stored) :
              /\ r.id = last.detected[k].existingId
              /\ r.matchedTransferId
                    # FoundWith(last.detected[k].existingId).matchedTransferId
-----------------------------------------------------------------------------
(* Protected records and the repair of the detail screen (checked under    *)
(* Spec).                                                                  *)

\* the stored copies of a transaction the latest import persisted
StoredCopies(r) == {s \in Range(Stored) : s.id = r.id}

\* C28: every transaction the latest import persisted as protected has a
\* matchedTransferId once the import has completed, so the repair of the
\* detail screen leaves it alone and it stays protected and excluded from
\* analytics.
C28_ProtectedHaveCounterpart ==
    Imported =>
        \A r \in Range(last.queuedTxs) :
            r.isAnalyticsProtected =>
                \A s \in StoredCopies(r) :
                    /\ s.matchedTransferId # NoId
                    /\ RemoveTransferFlags(s) = s
                    /\ s.isAnalyticsProtected
                    /\ s.excludeFromAnalytics

\* what the AIB flow keeps of C28: its protected transactions name a
\* counterpart and are left alone by the repair
C28_AibProtectedHaveCounterpart ==
    AibImported =>
        \A r \in Range(last.queuedTxs) :
            r.isAnalyticsProtected =>
                \A s \in StoredCopies(r) :
                    /\ s.matchedTransferId # NoId
                    /\ RemoveTransferFlags(s) = s
                    /\ s.isAnalyticsProtected
                    /\ s.excludeFromAnalytics

\* a transaction the latest Revolut import persisted as a protected
\* transfer is stored without a counterpart and without its flags
C28_FlagsRemoved ==
    /\ last.provider = "revolut_import"
    /\ \E r \in Range(last.queuedTxs) :
          /\ IsTransfer(r)
          /\ \E s \in StoredCopies(r) :
                /\ s.matchedTransferId = NoId
                /\ ~s.isAnalyticsProtected
                /\ ~s.excludeFromAnalytics
-----------------------------------------------------------------------------
(* A statement imported again while its transactions wait in the queue     *)
(* (checked under Spec).                                                   *)

\* the latest import ran on a statement imported before and found every
\* transaction of it, the zero amounts apart, among the queued entries
FoundQueued ==
    /\ runs >= 2
    /\ \A i \in 1..Len(transactions) :
          transactions[i].amount # 0 =>
              \E q \in Range(last.queue) : SameDedupKey(transactions[i], q)

\* C29: in both flows an import of a statement whose transactions of an
\* earlier import are still in the local queue persists nothing.
C29_QueuedCountAsExisting == FoundQueued => last.queuedTxs = <<>>

\* what the AIB flow keeps of C29
C29_AibQueuedCountAsExisting ==
    FoundQueued /\ AibImported => last.queuedTxs = <<>>

\* the Revolut flow found the transactions of the statement in the queue
\* and persisted them a second time
C29_RevolutPersistedAgain ==
    /\ FoundQueued
    /\ last.provider = "revolut_import"
    /\ transactions # <<>>
    /\ Len(last.queuedTxs) = Len(transactions)
    /\ \A k \in 1..Len(last.queuedTxs) :
          \E q \in Range(last.queue) : SameDedupKey(last.queuedTxs[k], q)
-----------------------------------------------------------------------------
(* The greedy scan of detectAibTransfers against the largest pairing.      *)

\* the (new index, existing index) pairs the criteria allow
Pairable(new, existing) ==
    {p \in (1..Len(new)) \X (1..Len(existing)) :
        /\ HasMarker(new[p[1]])
        /\ HasMarker(existing[p[2]])
        /\ SameDay(new[p[1]], existing[p[2]])
        /\ Abs(new[p[1]].amount) = Abs(existing[p[2]].amount)
        /\ new[p[1]].currency = existing[p[2]].currency
        /\ OppositeKinds(new[p[1]], existing[p[2]])}

OneToOne(m) == \A p, q \in m : p # q => p[1] # q[1] /\ p[2] # q[2]

Pairings(new, existing) == {m \in SUBSET Pairable(new, existing) : OneToOne(m)}

Reorderings(s) ==
    {[i \in 1..Len(s) |-> s[f[i]]] :
        f \in {g \in [1..Len(s) -> 1..Len(s)] :
                  \A i, j \in 1..Len(s) : i # j => g[i] # g[j]}}

ReturnedPairing ==
    {<<ret.pairs[k].newIndex, ret.pairs[k].existingIndex>> : k \in 1..Len(ret.pairs)}

\* C30: the pairs detectAibTransfers returns are a one-to-one pairing of
\* marked new candidates with marked existing candidates on the same calendar
\* day, of equal absolute amount, the same currency and opposite kind; no
\* such pairing has more pairs; and every reordering of either input list
\* yields the same number of pairs.
C30_MaximumMatching ==
    ret.fn = "detectAibTransfers" =>
        /\ ReturnedPairing \in Pairings(argNew, argExisting)
        /\ Cardinality(ReturnedPairing) = Len(ret.pairs)
        /\ \A m \in Pairings(argNew, argExisting) : Cardinality(m) <= Len(ret.pairs)
        /\ \A new \in Reorderings(argNew) :
              \A existing \in Reorderings(argExisting) :
                  Len(detectAibTransfers(new, existing).pairs) = Len(ret.pairs)

\* a call where the greedy scan had a choice: some candidate could have been
\* paired otherwise, another pairing is as large as the returned one, and a
\* reordering of the lists changes which records are paired
C30_Witness ==
    /\ ret.fn = "detectAibTransfers"
    /\ Len(ret.pairs) >= 1
    /\ \E m \in Pairings(argNew, argExisting) :
          m # ReturnedPairing /\ Cardinality(m) = Len(ret.pairs)
    /\ \E existing \in Reorderings(argExisting) :
          existing[detectAibTransfers(argNew, existing).pairs[1].existingIndex]
              # argExisting[ret.pairs[1].existingIndex]

\* both new candidates found a counterpart although every one of the four
\* combinations was allowed
C30_TwoPairs ==
    /\ ret.fn = "detectAibTransfers"
    /\ Len(ret.pairs) = 2
    /\ Cardinality(Pairable(argNew, argExisting)) = 4

====
